---- MODULE Spec2Model ----
(***************************************************************************)
(* Aspect-sentiment pipeline of the Indian-college review analyser:        *)
(* analyzer.py (oracle adapter, aspect tagger, per-document aggregator,    *)
(* batch scoring of a frame) and summarizer.py (cohort aggregation).       *)
(*                                                                         *)
(* Texts are sequences of one-character strings, so that lowercasing,      *)
(* strip(), sentence segmentation and the word-boundary regular expression *)
(* are computed on characters as the code computes them.  A polarity is an *)
(* integer number of units, PolarityUnit units being the polarity 1.0; a   *)
(* mean of polarities is an exact fraction num/den of units.               *)
(***************************************************************************)
EXTENDS Integers, Sequences, FiniteSets, TLC

(***************************************************************************)
(* Bounds of the model.                                                    *)
(***************************************************************************)
MaxDocs == 2          \* rows of the frame handed to the batch scorer
MaxSentences == 2     \* sentences of one generated document text
MaxOracleFailures == 1 \* oracle calls that raise during one run
MaxRows == 3          \* rows of the scored frame handed to the summarizer
MaxTopN == 2          \* largest n, besides the configured one, asked of the selector
MaxFragments == 3     \* pieces of markup in one raw text
MaxTargets == 2       \* entries of the college-to-subreddit map
MaxRuns == 2          \* runs of the scraper over the same raw file

(***************************************************************************)
(* Characters.                                                             *)
(***************************************************************************)
LowerAlpha == <<"a","b","c","d","e","f","g","h","i","j","k","l","m",
                "n","o","p","q","r","s","t","u","v","w","x","y","z">>
UpperAlpha == <<"A","B","C","D","E","F","G","H","I","J","K","L","M",
                "N","O","P","Q","R","S","T","U","V","W","X","Y","Z">>
Digits == {"0","1","2","3","4","5","6","7","8","9"}

Range(s) == {s[i] : i \in DOMAIN s}

Letters == Range(LowerAlpha) \cup Range(UpperAlpha)
Whitespace == {" ", "\t", "\n"}

\* str.lower() on one character
LowerChar(c) ==
    IF c \in Range(UpperAlpha)
    THEN LowerAlpha[CHOOSE i \in DOMAIN UpperAlpha : UpperAlpha[i] = c]
    ELSE c

\* str.lower()
RECURSIVE Lower(_)
Lower(s) == IF s = <<>> THEN <<>> ELSE <<LowerChar(Head(s))>> \o Lower(Tail(s))

\* the character class \s
IsSpace(c) == c \in Whitespace

\* the character class \w
WordChars == Letters \cup Digits \cup {"_"}
IsWordChar(c) == c \in WordChars

\* "not text.strip()": nothing is left once the whitespace is stripped
StripIsEmpty(s) == \A i \in DOMAIN s : IsSpace(s[i])

\* str.strip()
RECURSIVE LStrip(_)
LStrip(s) == IF s # <<>> /\ IsSpace(Head(s)) THEN LStrip(Tail(s)) ELSE s
RECURSIVE RStrip(_)
RStrip(s) ==
    IF s # <<>> /\ IsSpace(s[Len(s)]) THEN RStrip(SubSeq(s, 1, Len(s) - 1)) ELSE s
Strip(s) == RStrip(LStrip(s))

\* the assertion \b at the gap after position p (0 .. Len(s)) of s
WordBoundaryAt(s, p) ==
    LET before == p >= 1 /\ IsWordChar(s[p])
        after == p + 1 <= Len(s) /\ IsWordChar(s[p + 1])
    IN before # after

\* the keyword occupies positions p+1 .. p+Len(keyword) of s
OccursAt(s, keyword, p) ==
    /\ p + Len(keyword) <= Len(s)
    /\ \A j \in 1..Len(keyword) : s[p + j] = keyword[j]

SubstringSearch(keyword, s) ==
    \E p \in 0..Len(s) : OccursAt(s, keyword, p)

\* re.search(r'\b' + re.escape(keyword) + r'\b', s)
WholeWordSearch(keyword, s) ==
    \E p \in 0..Len(s) :
        /\ OccursAt(s, keyword, p)
        /\ WordBoundaryAt(s, p)
        /\ WordBoundaryAt(s, p + Len(keyword))

(***************************************************************************)
(* Words written as character sequences.                                   *)
(***************************************************************************)
ACADEMIC == <<"a","c","a","d","e","m","i","c">>
ACADEMICS == <<"a","c","a","d","e","m","i","c","s">>
PROF == <<"p","r","o","f">>
JOB == <<"j","o","b">>
JOBS == <<"j","o","b","s">>
HOSTEL == <<"h","o","s","t","e","l">>
MESS == <<"m","e","s","s">>
LIFE == <<"l","i","f","e">>
FUN == <<"f","u","n">>
FEE == <<"f","e","e">>
FEES == <<"f","e","e","s">>
COST == <<"c","o","s","t">>
GOOD == <<"g","o","o","d">>
BAD == <<"b","a","d">>
W_is == <<"i","s">>
W_high == <<"h","i","g","h">>
W_costume == <<"c","o","s","t","u","m","e">>
W_Cost == <<"C","o","s","t">>

(***************************************************************************)
(* Numbers.  A float is an exact fraction in lowest terms; None is the     *)
(* absent value (Python None, pandas NaN).                                 *)
(***************************************************************************)
Abs(n) == IF n < 0 THEN 0 - n ELSE n

RECURSIVE GCD(_, _)
GCD(a, b) == IF b = 0 THEN a ELSE GCD(b, a % b)

None == [present |-> FALSE, num |-> 0, den |-> 1]

\* the float n / d, d > 0
Float(n, d) ==
    LET g == GCD(Abs(n), d)
    IN [present |-> TRUE, num |-> n \div g, den |-> d \div g]

\* the float 0.0
Zero == Float(0, 1)

RECURSIVE SumSeq(_)
SumSeq(s) == IF s = <<>> THEN 0 ELSE Head(s) + SumSeq(Tail(s))

(***************************************************************************)
(* Python values held by a text cell: a str, None or a number.  chars is   *)
(* the string itself for a str and str(value) for the other types.         *)
(***************************************************************************)
Str(chars) == [type |-> "str", chars |-> chars]
NoneValue == [type |-> "NoneType", chars |-> <<"N","o","n","e">>]
IntValue == [type |-> "int", chars |-> <<"4","2">>]

\* isinstance(text, str)
IsStr(text) == text.type = "str"

\* Series.astype(str) on one cell
AsTypeStr(v) == Str(v.chars)

(***************************************************************************)
(* ASPECT_KEYWORDS: the five aspects in table order, each with a           *)
(* representative part of its keyword list.                                *)
(***************************************************************************)
Aspects == <<"academics", "placements", "infrastructure", "campus_life", "fees">>
AspectSet == Range(Aspects)

ASPECT_KEYWORDS ==
    [a \in AspectSet |->
       CASE a = "academics" -> {ACADEMIC, ACADEMICS, PROF}
         [] a = "placements" -> {JOB, JOBS}
         [] a = "infrastructure" -> {HOSTEL, MESS}
         [] a = "campus_life" -> {LIFE, FUN}
         [] a = "fees" -> {FEE, FEES, COST}]

(***************************************************************************)
(* The polarity oracle, SentimentIntensityAnalyzer.polarity_scores: a      *)
(* lexicon scorer.  The compound score is the sum of the valences of the   *)
(* lexicon words of the text, brought into [-1, +1]; a text without        *)
(* lexicon words scores 0.                                                 *)
(***************************************************************************)
PolarityUnit == 10

Lexicon == {[word |-> GOOD, valence |-> 4], [word |-> BAD, valence |-> 0 - 5]}

Occurrences(word, s) ==
    Cardinality({p \in 0..Len(s) :
        /\ OccursAt(s, word, p)
        /\ WordBoundaryAt(s, p)
        /\ WordBoundaryAt(s, p + Len(word))})

RECURSIVE SumValences(_, _)
SumValences(entries, s) ==
    IF entries = {} THEN 0
    ELSE LET e == CHOOSE x \in entries : TRUE
         IN e.valence * Occurrences(e.word, s) + SumValences(entries \ {e}, s)

Clip(v) ==
    IF v > PolarityUnit THEN PolarityUnit
    ELSE IF v < 0 - PolarityUnit THEN 0 - PolarityUnit ELSE v

\* analyzer.polarity_scores(text)['compound']
polarity_scores(chars) == Clip(SumValences(Lexicon, Lower(chars)))

(***************************************************************************)
(* nltk.sent_tokenize: a sentence ends at a '.', '?' or '!' that is        *)
(* followed by whitespace; sentences are returned in order, without the    *)
(* whitespace between them.                                                *)
(***************************************************************************)
IsSentenceEnd(s, p) ==
    /\ s[p] \in {".", "?", "!"}
    /\ p < Len(s)
    /\ IsSpace(s[p + 1])

RECURSIVE sent_tokenize(_)
sent_tokenize(chars) ==
    LET t == Strip(chars)
        ends == {p \in DOMAIN t : IsSentenceEnd(t, p)}
    IN IF t = <<>> THEN <<>>
       ELSE IF ends = {} THEN <<t>>
       ELSE LET p == CHOOSE q \in ends : \A r \in ends : q <= r
            IN <<SubSeq(t, 1, p)>> \o sent_tokenize(SubSeq(t, p + 1, Len(t)))

(***************************************************************************)
(* get_vader_sentiment(text).  analyzer is the module-level analyzer       *)
(* (FALSE: it is None, the lexicon was not found); oracle_raises says      *)
(* whether polarity_scores raises on this call.  The result carries the    *)
(* returned value, whether an exception left the function, and the texts   *)
(* on which the oracle was invoked.                                        *)
(***************************************************************************)
Returns(v, invoked) == [value |-> v, raised |-> FALSE, calls |-> invoked]
Raises(invoked) == [value |-> 0, raised |-> TRUE, calls |-> invoked]

get_vader_sentiment_uncaught(an, text, oracle_raises) ==
    IF ~an THEN Returns(0, <<>>)
    ELSE IF ~IsStr(text) \/ StripIsEmpty(text.chars) THEN Returns(0, <<>>)
    ELSE IF oracle_raises THEN Raises(<<text.chars>>)
    ELSE Returns(polarity_scores(text.chars), <<text.chars>>)

get_vader_sentiment_unguarded(an, text, oracle_raises) ==
    IF ~an THEN Returns(0, <<>>)
    ELSE IF oracle_raises THEN Returns(0, <<text.chars>>)
    ELSE Returns(polarity_scores(text.chars), <<text.chars>>)

get_vader_sentiment(an, text, oracle_raises) ==
    IF ~an THEN Returns(0, <<>>)
    ELSE IF ~IsStr(text) \/ StripIsEmpty(text.chars) THEN Returns(0, <<>>)
    ELSE IF oracle_raises THEN Returns(0, <<text.chars>>)
    ELSE Returns(polarity_scores(text.chars), <<text.chars>>)

(***************************************************************************)
(* analyze_aspect_sentiment(text).                                         *)
(***************************************************************************)
\* line 105: any(re.search(...) for keyword in keywords)
MatchesAspect(aspect, sentence_lower) ==
    \E keyword \in ASPECT_KEYWORDS[aspect] : WholeWordSearch(keyword, sentence_lower)

\* lines 103-106: the inner loop over the aspects, for one sentence
AppendFirstMatch(aspect_sentiments, sentence_lower, sentence_score) ==
    [a \in AspectSet |->
        IF /\ MatchesAspect(a, sentence_lower)
           /\ \A i \in DOMAIN Aspects :
                 (MatchesAspect(Aspects[i], sentence_lower)
                     => \E j \in 1..i : Aspects[j] = a)
        THEN Append(aspect_sentiments[a], sentence_score)
        ELSE aspect_sentiments[a]]

AppendToMatched(aspect_sentiments, sentence_lower, sentence_score) ==
    [a \in AspectSet |->
        IF MatchesAspect(a, sentence_lower)
        THEN Append(aspect_sentiments[a], sentence_score)
        ELSE aspect_sentiments[a]]

\* lines 110-115: the score of one aspect from its accumulator
SumOfScores(scores) ==
    IF scores # <<>> THEN Float(SumSeq(scores), 1) ELSE None

ZeroWhenEmpty(scores) ==
    IF scores # <<>> THEN Float(SumSeq(scores), Len(scores)) ELSE Float(0, 1)

FinalScore(scores) ==
    IF scores # <<>> THEN Float(SumSeq(scores), Len(scores)) ELSE None

\* line 83: final_aspect_scores, every aspect None
AllZero == [a \in AspectSet |-> Float(0, 1)]

AllNone == [a \in AspectSet |-> None]

\* lines 97-106: the loop over the sentences from sentence k on; raising is
\* the set of sentence positions on whose scoring the oracle raises.  The
\* state of the loop is the accumulators, the oracle invocations and, per
\* sentence, the score the adapter returned.
RECURSIVE SentenceLoopPerAspect(_, _, _, _, _)
SentenceLoopPerAspect(an, sentences, raising, k, st) ==
    IF k > Len(sentences) \/ st.raised THEN st
    ELSE LET sentence == sentences[k]
             sentence_lower == Lower(sentence)
             r == get_vader_sentiment(an, Str(sentence), k \in raising)
             matched == SelectSeq(Aspects, LAMBDA a : MatchesAspect(a, sentence_lower))
         IN SentenceLoopPerAspect(an, sentences, raising, k + 1,
               [aspect_sentiments |->
                   AppendToMatched(st.aspect_sentiments, sentence_lower, r.value),
                sentence_scores |-> Append(st.sentence_scores, r.value),
                calls |-> st.calls \o [j \in DOMAIN matched |-> sentence],
                raised |-> FALSE])

RECURSIVE SentenceLoop(_, _, _, _, _)
SentenceLoop(an, sentences, raising, k, st) ==
    IF k > Len(sentences) \/ st.raised THEN st
    ELSE LET sentence == sentences[k]
             sentence_lower == Lower(sentence)
             r == get_vader_sentiment(an, Str(sentence), k \in raising)
         IN SentenceLoop(an, sentences, raising, k + 1,
               IF r.raised
               THEN [st EXCEPT !.raised = TRUE, !.calls = @ \o r.calls]
               ELSE [aspect_sentiments |->
                        AppendToMatched(st.aspect_sentiments, sentence_lower, r.value),
                     sentence_scores |-> Append(st.sentence_scores, r.value),
                     calls |-> st.calls \o r.calls,
                     raised |-> FALSE])

\* the result of analyze_aspect_sentiment: the returned dict (scores), the
\* accumulators it was computed from, the sentences iterated over with the
\* score of each, the oracle invocations made, and whether an exception
\* left the function
AspectResult(scores, aspect_sentiments, sentences, sentence_scores, calls, raised) ==
    [scores |-> scores, aspect_sentiments |-> aspect_sentiments,
     sentences |-> sentences, sentence_scores |-> sentence_scores,
     calls |-> calls, raised |-> raised]

NoSentiments == [a \in AspectSet |-> <<>>]

analyze_aspect_sentiment_uncaught(an, text, tokenize_raises, raising) ==
    IF ~an THEN AspectResult(AllNone, NoSentiments, <<>>, <<>>, <<>>, FALSE)
    ELSE IF ~IsStr(text) \/ StripIsEmpty(text.chars)
    THEN AspectResult(AllNone, NoSentiments, <<>>, <<>>, <<>>, FALSE)
    ELSE IF tokenize_raises THEN AspectResult(AllNone, NoSentiments, <<>>, <<>>, <<>>, TRUE)
    ELSE LET sentences == sent_tokenize(text.chars)
             st == SentenceLoop(an, sentences, raising, 1,
                      [aspect_sentiments |-> NoSentiments,
                       sentence_scores |-> <<>>, calls |-> <<>>, raised |-> FALSE])
         IN AspectResult(
                [a \in AspectSet |-> FinalScore(st.aspect_sentiments[a])],
                st.aspect_sentiments, sentences, st.sentence_scores, st.calls,
                st.raised)

analyze_aspect_sentiment(an, text, tokenize_raises, raising) ==
    IF ~an THEN AspectResult(AllNone, NoSentiments, <<>>, <<>>, <<>>, FALSE)
    ELSE IF ~IsStr(text) \/ StripIsEmpty(text.chars)
    THEN AspectResult(AllNone, NoSentiments, <<>>, <<>>, <<>>, FALSE)
    ELSE IF tokenize_raises THEN AspectResult(AllNone, NoSentiments, <<>>, <<>>, <<>>, FALSE)
    ELSE LET sentences == sent_tokenize(text.chars)
             st == SentenceLoop(an, sentences, raising, 1,
                      [aspect_sentiments |-> NoSentiments,
                       sentence_scores |-> <<>>, calls |-> <<>>, raised |-> FALSE])
         IN AspectResult(
                [a \in AspectSet |-> FinalScore(st.aspect_sentiments[a])],
                st.aspect_sentiments, sentences, st.sentence_scores, st.calls,
                st.raised)

(***************************************************************************)
(* Document texts of the model: up to MaxSentences sentences of a small    *)
(* pool, each closed by a full stop, joined by one space; and the          *)
(* degenerate cells (empty, whitespace-only, None, a number).              *)
(***************************************************************************)
RECURSIVE Join(_, _)
Join(parts, sep) ==
    IF parts = <<>> THEN <<>>
    ELSE IF Len(parts) = 1 THEN parts[1]
    ELSE parts[1] \o sep \o Join(Tail(parts), sep)

Sentence(words) == Join(words, <<" ">>) \o <<".">>

SentencePool ==
    { Sentence(<<COST, W_is, W_high>>),
      Sentence(<<W_Cost, W_is, BAD>>),
      Sentence(<<W_costume, W_is, GOOD>>),
      Sentence(<<ACADEMICS, GOOD, HOSTEL, BAD>>) }

SentenceSeqs == UNION {[1..n -> SentencePool] : n \in 1..MaxSentences}

DocumentTexts == {Str(Join(ss, <<" ">>)) : ss \in SentenceSeqs}

DegenerateTexts == {Str(<<>>), Str(<<" ", " ">>), NoneValue, IntValue}

TextCells == DocumentTexts \cup DegenerateTexts

\* the text cells of the frames handed to the batch scorer
FrameCells ==
    { Str(Join(<<Sentence(<<COST, W_is, W_high>>), Sentence(<<W_Cost, W_is, BAD>>)>>,
               <<" ">>)),
      Str(Sentence(<<ACADEMICS, GOOD, HOSTEL, BAD>>)),
      Str(Sentence(<<W_costume, W_is, GOOD>>)),
      Str(<<>>), Str(<<" ", " ">>), NoneValue }

(***************************************************************************)
(* State.                                                                  *)
(***************************************************************************)
VARIABLES
    analyzer,          \* the module-level analyzer is initialised (not None)
    df,                \* the frame: a sequence of rows
    columns,           \* df.columns
    pc,                \* position of the running operation
    i,                 \* row the batch scorer is at
    compound_results,  \* per row, the adapter's result on the whole text
    aspect_results,    \* per row, the result of analyze_aspect_sentiment
    ret,               \* what a directly called function returned
    aspect_summary     \* result of calculate_aspect_sentiment_summary

vars == <<analyzer, df, columns, pc, i, compound_results, aspect_results, ret,
          aspect_summary>>

text_col == "text"
NoCall == [fn |-> "none"]
NoFrame == [index |-> <<>>, columns |-> {}, cell |-> <<>>]

\* a row as loaded: the text cell, no score yet
Row(cell) == [text |-> cell, compound_sentiment |-> None, aspects |-> AllNone]

Frames == UNION {[1..n -> {Row(c) : c \in FrameCells}] : n \in 1..MaxDocs}

Init ==
    /\ analyzer \in BOOLEAN
    /\ df = <<>>
    /\ columns = {}
    /\ pc = "start"
    /\ i = 1
    /\ compound_results = <<>>
    /\ aspect_results = <<>>
    /\ ret = NoCall
    /\ aspect_summary = NoFrame

\* oracle and segmenter failures that have happened in this run
FailuresSoFar ==
    Cardinality({r \in DOMAIN compound_results : compound_results[r].oracle_raised})
    + SumSeq([r \in DOMAIN aspect_results |->
                Cardinality(aspect_results[r].raising)
                + (IF aspect_results[r].tokenize_raised THEN 1 ELSE 0)])

\* the positions of the sentences of a text cell
SentencePositions(text) ==
    IF IsStr(text) THEN 1..Len(sent_tokenize(text.chars)) ELSE {}

(***************************************************************************)
(* A direct call get_vader_sentiment(text).                                 *)
(***************************************************************************)
CallGetVaderSentiment ==
    /\ pc = "start"
    /\ \E text \in TextCells, oracle_raises \in BOOLEAN :
         LET res == get_vader_sentiment(analyzer, text, oracle_raises)
         IN ret' = [fn |-> "get_vader_sentiment", arg |-> text,
                    oracle_raised |-> oracle_raises /\ res.calls # <<>>,
                    value |-> res.value, raised |-> res.raised, calls |-> res.calls]
    /\ pc' = "called"
    /\ UNCHANGED <<analyzer, df, columns, i, compound_results, aspect_results,
                   aspect_summary>>

(***************************************************************************)
(* A direct call analyze_aspect_sentiment(text).                            *)
(***************************************************************************)
CallAnalyzeAspectSentiment ==
    /\ pc = "start"
    /\ \E text \in TextCells, tokenize_raises \in BOOLEAN :
       \E raising \in SUBSET SentencePositions(text) :
         /\ Cardinality(raising) + (IF tokenize_raises THEN 1 ELSE 0)
               <= MaxOracleFailures
         /\ LET res == analyze_aspect_sentiment(analyzer, text,
                                                tokenize_raises, raising)
            IN ret' = [fn |-> "analyze_aspect_sentiment", arg |-> text,
                       scores |-> res.scores,
                       aspect_sentiments |-> res.aspect_sentiments,
                       sentences |-> res.sentences,
                       sentence_scores |-> res.sentence_scores,
                       tokenize_raised |-> tokenize_raises /\ analyzer
                                             /\ IsStr(text) /\ ~StripIsEmpty(text.chars),
                       raising |-> IF res.sentences = <<>> THEN {} ELSE raising,
                       raised |-> res.raised, calls |-> res.calls]
    /\ pc' = "called"
    /\ UNCHANGED <<analyzer, df, columns, i, compound_results, aspect_results,
                   aspect_summary>>

(***************************************************************************)
(* A frame with a text column is built, to be handed to the batch scorer.  *)
(***************************************************************************)
MakeFrame ==
    /\ pc = "start"
    /\ df' \in Frames
    /\ columns' = {text_col}
    /\ pc' = "ready"
    /\ UNCHANGED <<analyzer, i, compound_results, aspect_results, ret,
                   aspect_summary>>

(***************************************************************************)
(* apply_sentiment_analysis_to_df, lines 132-142: the two early returns,   *)
(* then the text column is coerced to str.                                 *)
(***************************************************************************)
ApplyBegin ==
    /\ pc = "ready"
    /\ IF text_col \notin columns \/ ~analyzer
       THEN /\ pc' = "returned"
            /\ df' = df
       ELSE /\ pc' = "compound"
            /\ df' = [r \in DOMAIN df |-> [df[r] EXCEPT !.text = AsTypeStr(@)]]
    /\ UNCHANGED <<analyzer, columns, i, compound_results, aspect_results, ret,
                   aspect_summary>>

(***************************************************************************)
(* Line 143: progress_apply(get_vader_sentiment), one row per step; the    *)
(* column is assigned when the last row is done.                           *)
(***************************************************************************)
ScoreCompoundRow ==
    /\ pc = "compound"
    /\ \E oracle_raises \in BOOLEAN :
         /\ oracle_raises => FailuresSoFar < MaxOracleFailures
         /\ LET res == get_vader_sentiment(analyzer, df[i].text, oracle_raises)
                done == Append(compound_results,
                           [value |-> res.value, calls |-> res.calls,
                            oracle_raised |-> oracle_raises /\ res.calls # <<>>])
            IN IF res.raised
               THEN /\ pc' = "raised"
                    /\ UNCHANGED <<df, columns, i, compound_results>>
               ELSE /\ compound_results' = done
                    /\ IF i < Len(df)
                       THEN /\ i' = i + 1
                            /\ UNCHANGED <<df, columns, pc>>
                       ELSE /\ i' = 1
                            /\ pc' = "aspects"
                            /\ columns' = columns \cup {"compound_sentiment"}
                            /\ df' = [r \in DOMAIN df |->
                                        [df[r] EXCEPT !.compound_sentiment =
                                            Float(done[r].value, 1)]]
    /\ UNCHANGED <<analyzer, aspect_results, ret, aspect_summary>>

(***************************************************************************)
(* Lines 146-149: analyze_aspect_sentiment on the text of each row, in     *)
(* row order, appended to aspect_results.                                  *)
(***************************************************************************)
AnalyzeAspectRow ==
    /\ pc = "aspects"
    /\ \E tokenize_raises \in BOOLEAN :
       \E raising \in SUBSET SentencePositions(df[i].text) :
         /\ FailuresSoFar + Cardinality(raising) + (IF tokenize_raises THEN 1 ELSE 0)
               <= MaxOracleFailures
         /\ tokenize_raises => raising = {}
         /\ LET res == analyze_aspect_sentiment(analyzer, df[i].text,
                                                tokenize_raises, raising)
            IN IF res.raised
               THEN /\ pc' = "raised"
                    /\ UNCHANGED <<i, aspect_results>>
               ELSE /\ aspect_results' = Append(aspect_results,
                         [scores |-> res.scores,
                          aspect_sentiments |-> res.aspect_sentiments,
                          sentences |-> res.sentences,
                          sentence_scores |-> res.sentence_scores,
                          calls |-> res.calls,
                          tokenize_raised |-> tokenize_raises
                                                /\ ~StripIsEmpty(df[i].text.chars),
                          raising |-> raising])
                    /\ IF i < Len(df)
                       THEN i' = i + 1 /\ pc' = pc
                       ELSE i' = 1 /\ pc' = "concat"
    /\ UNCHANGED <<analyzer, df, columns, compound_results, ret, aspect_summary>>

\* the name of the frame column of an aspect
AspectColumn(a) == a \o "_sentiment"

(***************************************************************************)
(* Lines 152-161: the aspect dicts become columns, joined to the frame by  *)
(* row index; the frame is returned.                                       *)
(***************************************************************************)
ConcatAspectsReversed ==
    /\ pc = "concat"
    /\ df' = [r \in DOMAIN df |->
                [df[r] EXCEPT !.aspects = aspect_results[Len(df) + 1 - r].scores]]
    /\ columns' = columns \cup {AspectColumn(a) : a \in AspectSet}
    /\ pc' = "returned"
    /\ UNCHANGED <<analyzer, i, compound_results, aspect_results, ret, aspect_summary>>

ConcatAspects ==
    /\ pc = "concat"
    /\ df' = [r \in DOMAIN df |-> [df[r] EXCEPT !.aspects = aspect_results[r].scores]]
    /\ columns' = columns \cup {AspectColumn(a) : a \in AspectSet}
    /\ pc' = "returned"
    /\ UNCHANGED <<analyzer, i, compound_results, aspect_results, ret, aspect_summary>>

Next ==
    \/ CallGetVaderSentiment
    \/ CallAnalyzeAspectSentiment
    \/ MakeFrame
    \/ ApplyBegin
    \/ ScoreCompoundRow
    \/ AnalyzeAspectRow
    \/ ConcatAspects

Spec == Init /\ [][Next]_vars

(***************************************************************************)
(* Views of the state used by the properties.                              *)
(***************************************************************************)
Analysis(x) ==
    [scores |-> x.scores, aspect_sentiments |-> x.aspect_sentiments,
     sentences |-> x.sentences, sentence_scores |-> x.sentence_scores,
     raising |-> x.raising, tokenize_raised |-> x.tokenize_raised]

\* every completed run of analyze_aspect_sentiment: the direct call and the
\* rows of the batch analysed so far
Analyses ==
    {Analysis(aspect_results[r]) : r \in DOMAIN aspect_results}
    \cup (IF ret.fn = "analyze_aspect_sentiment" THEN {Analysis(ret)} ELSE {})

\* the sentences of an analysis in which a keyword of the aspect matched
Matching(an, a) ==
    {k \in DOMAIN an.sentences : MatchesAspect(a, Lower(an.sentences[k]))}

RECURSIVE SumOver(_, _)
SumOver(f, S) ==
    IF S = {} THEN 0
    ELSE LET k == CHOOSE x \in S : TRUE IN f[k] + SumOver(f, S \ {k})

\* the k-th smallest element of a set of positions
RECURSIVE Nth(_, _)
Nth(S, k) ==
    LET m == CHOOSE x \in S : \A y \in S : x <= y
    IN IF k = 1 THEN m ELSE Nth(S \ {m}, k - 1)

\* a keyword of the aspect stands in the sentence, in any letter case, with
\* no word character directly before or after it
DelimitedOccurrence(a, sentence) ==
    \E keyword \in ASPECT_KEYWORDS[a] :
    \E p \in 0..(Len(sentence) - Len(keyword)) :
        /\ \A j \in 1..Len(keyword) : LowerChar(sentence[p + j]) = keyword[j]
        /\ p = 0 \/ ~IsWordChar(sentence[p])
        /\ p + Len(keyword) = Len(sentence)
              \/ ~IsWordChar(sentence[p + Len(keyword) + 1])

\* a keyword of the aspect occurs in the sentence at least as part of a word
EmbeddedOccurrence(a, sentence) ==
    \E keyword \in ASPECT_KEYWORDS[a] :
    \E p \in 0..(Len(sentence) - Len(keyword)) :
        \A j \in 1..Len(keyword) : LowerChar(sentence[p + j]) = keyword[j]

\* a text cell that is null, empty or whitespace-only
Blank(cell) == ~IsStr(cell) \/ StripIsEmpty(cell.chars)

\* the batch scorer has scored the frame and returned it
Scored == pc = "returned" /\ "compound_sentiment" \in columns

(***************************************************************************)
(* C1: a present aspect score is the arithmetic mean of the polarities of  *)
(* exactly the sentences in which a keyword of the aspect matched, each    *)
(* counted once.                                                           *)
(***************************************************************************)
C1_ScoreIsMeanOfMatching ==
    \A an \in Analyses : \A a \in AspectSet :
        an.scores[a].present =>
            LET M == Matching(an, a)
            IN /\ M # {}
               /\ an.scores[a].den > 0
               /\ an.scores[a].num * Cardinality(M)
                     = an.scores[a].den * SumOver(an.sentence_scores, M)

\* fees of "cost is high. Cost is bad." is the mean -5/2 of its two sentences
C1_Witness ==
    \E an \in Analyses :
        /\ Cardinality(Matching(an, "fees")) = 2
        /\ an.scores["fees"] = [present |-> TRUE, num |-> 0 - 5, den |-> 2]

(***************************************************************************)
(* C2: null versus zero.  An aspect score is absent exactly when none of   *)
(* the document's sentences matched the aspect; absent is never reported   *)
(* as 0.0, and a matching sentence of neutral polarity gives a present 0.0.*)
(***************************************************************************)
C2_AbsentIffUnmentioned ==
    \A an \in Analyses : \A a \in AspectSet :
        /\ an.scores[a].present <=> Matching(an, a) # {}
        /\ (Matching(an, a) # {}
              /\ \A k \in Matching(an, a) : an.sentence_scores[k] = 0)
             => an.scores[a] = [present |-> TRUE, num |-> 0, den |-> 1]

\* "cost is high." is neutral: fees is present and 0.0, the rest is absent
C2_Witness ==
    \E an \in Analyses :
        /\ Len(an.sentences) = 1
        /\ an.sentence_scores = <<0>>
        /\ an.raising = {}
        /\ an.scores["fees"] = [present |-> TRUE, num |-> 0, den |-> 1]
        /\ \A a \in AspectSet \ {"fees"} : ~an.scores[a].present

(***************************************************************************)
(* C3: tagging is non-exclusive.  The accumulator of an aspect holds, in   *)
(* sentence order, the single polarity of every sentence that matched the  *)
(* aspect and nothing else, whatever other aspects the sentence matched.   *)
(***************************************************************************)
C3_NonExclusiveTagging ==
    \A an \in Analyses : \A a \in AspectSet :
        LET M == Matching(an, a)
        IN /\ Len(an.aspect_sentiments[a]) = Cardinality(M)
           /\ \A j \in 1..Cardinality(M) :
                 an.aspect_sentiments[a][j] = an.sentence_scores[Nth(M, j)]

\* "academics good hostel bad." counts for academics and for infrastructure
C3_Witness ==
    \E an \in Analyses :
        /\ Len(an.sentences) = 1
        /\ Matching(an, "academics") = {1}
        /\ Matching(an, "infrastructure") = {1}
        /\ an.aspect_sentiments["academics"] = <<0 - 1>>
        /\ an.aspect_sentiments["infrastructure"] = <<0 - 1>>
        /\ an.aspect_sentiments["fees"] = <<>>

(***************************************************************************)
(* C4: matching is whole-word and case-insensitive.  An aspect is tagged   *)
(* exactly when one of its keywords stands in a sentence between word      *)
(* boundaries, in any letter case; "cost" inside "costume" does not tag    *)
(* fees, "Cost is bad." does.                                              *)
(***************************************************************************)
C4_WholeWordCaseInsensitive ==
    \A an \in Analyses : \A a \in AspectSet :
        /\ \A k \in DOMAIN an.sentences :
              (k \in Matching(an, a)) <=> DelimitedOccurrence(a, an.sentences[k])
        /\ an.scores[a].present
              <=> \E k \in DOMAIN an.sentences : DelimitedOccurrence(a, an.sentences[k])

\* one analysed document has "cost" only inside "costume" and no fees score;
\* another has the capitalised "Cost" as a word and a fees score
C4_Witness ==
    /\ \E an \in Analyses :
          /\ \E k \in DOMAIN an.sentences : EmbeddedOccurrence("fees", an.sentences[k])
          /\ ~an.scores["fees"].present
    /\ \E an \in Analyses :
          /\ \E k \in DOMAIN an.sentences :
                /\ OccursAt(an.sentences[k], W_Cost, 0)
                /\ DelimitedOccurrence("fees", an.sentences[k])
          /\ an.scores["fees"].present


(***************************************************************************)
(* C5: a document whose text is empty, whitespace-only or null gets the    *)
(* overall polarity 0.0 and no aspect score, from the scoring functions    *)
(* called directly and as a row of the batch (where astype(str) has turned *)
(* the null into a string before it is scored).                            *)
(***************************************************************************)
C5_BlankTextIsNeutral ==
    /\ (ret.fn = "get_vader_sentiment" /\ Blank(ret.arg))
          => (ret.value = 0 /\ ~ret.raised)
    /\ (ret.fn = "analyze_aspect_sentiment" /\ Blank(ret.arg))
          => (~ret.raised /\ \A a \in AspectSet : ~ret.scores[a].present)
    /\ Scored =>
          \A r \in DOMAIN df :
              (\E c \in FrameCells : Blank(c) /\ df[r].text.chars = c.chars)
                 => /\ df[r].compound_sentiment = Zero
                    /\ \A a \in AspectSet : ~df[r].aspects[a].present

\* a null cell of the batch: coerced to the string "None", handed to the
\* oracle, scored 0.0 with every aspect absent
C5_Witness ==
    /\ Scored
    /\ \E r \in DOMAIN df :
          /\ df[r].text = Str(NoneValue.chars)
          /\ compound_results[r].calls = <<NoneValue.chars>>
          /\ df[r].compound_sentiment = Zero
          /\ \A a \in AspectSet : ~df[r].aspects[a].present

(***************************************************************************)
(* C6: get_vader_sentiment returns 0.0 for a non-string, empty or          *)
(* whitespace-only input without invoking the polarity oracle.             *)
(***************************************************************************)
C6_BlankInputSkipsOracle ==
    /\ (ret.fn = "get_vader_sentiment" /\ Blank(ret.arg))
          => (ret.value = 0 /\ ret.calls = <<>> /\ ~ret.raised)
    /\ \A r \in DOMAIN compound_results :
          Blank(df[r].text)
             => (compound_results[r].value = 0 /\ compound_results[r].calls = <<>>)

\* the adapter, with a working analyzer, called on a number
C6_Witness ==
    /\ analyzer
    /\ ret.fn = "get_vader_sentiment"
    /\ ~IsStr(ret.arg)
    /\ ret.value = 0
    /\ ret.calls = <<>>

(***************************************************************************)
(* C7: a failure raised by the polarity oracle is caught inside            *)
(* get_vader_sentiment, which then returns 0.0; it never reaches the       *)
(* caller.                                                                 *)
(***************************************************************************)
C7_OracleFailureIsCaught ==
    /\ pc # "raised"
    /\ ret.fn # "none" => ~ret.raised
    /\ (ret.fn = "get_vader_sentiment" /\ ret.oracle_raised) => ret.value = 0
    /\ \A r \in DOMAIN compound_results :
          compound_results[r].oracle_raised => compound_results[r].value = 0
    /\ \A an \in Analyses : \A k \in an.raising : an.sentence_scores[k] = 0

\* the oracle raised on a text whose polarity is not neutral
C7_Witness ==
    /\ ret.fn = "get_vader_sentiment"
    /\ ret.oracle_raised
    /\ polarity_scores(ret.arg.chars) # 0
    /\ ret.value = 0
    /\ ~ret.raised

(***************************************************************************)
(* C8: when the scoring of one document fails internally, the document     *)
(* gets neutral or absent scores -- overall 0.0 when the scoring of the    *)
(* whole text failed, and no aspect score contributed by a failing         *)
(* scoring -- and every other document of the batch is still scored.       *)
(***************************************************************************)
\* the mean of the polarities of the sentences in M, None when M is empty
MeanOver(f, M) ==
    IF M = {} THEN None ELSE Float(SumOver(f, M), Cardinality(M))

C8_FailingDocumentIsNeutral ==
    /\ pc # "raised"
    /\ Scored =>
          /\ Len(compound_results) = Len(df)
          /\ Len(aspect_results) = Len(df)
          /\ \A r \in DOMAIN df :
                /\ compound_results[r].oracle_raised => df[r].compound_sentiment = Zero
                /\ aspect_results[r].tokenize_raised
                      => \A a \in AspectSet : ~df[r].aspects[a].present
                /\ \A a \in AspectSet :
                      df[r].aspects[a] =
                          MeanOver(aspect_results[r].sentence_scores,
                                   Matching(Analysis(aspect_results[r]), a)
                                       \ aspect_results[r].raising)

(***************************************************************************)
(* summarizer.py: cohort aggregation over a scored frame.                  *)
(***************************************************************************)
college_col == "college_name_approx"

\* entity names, in the order groupby sorts them
Colleges == <<"IIT Bombay", "NIT Trichy">>

\* the aspects whose scores vary over the frames handed to the summarizer,
\* and the values a score takes there (absent, 0.0, 0.4)
VaryingAspects == {"academics", "fees"}
ScoreValues == {None, Zero, Float(4, 1)}

AspectDicts ==
    {[a \in AspectSet |-> IF a \in VaryingAspects THEN f[a] ELSE None] :
        f \in [VaryingAspects -> ScoreValues]}

ScoredRow(college, aspects) == [college |-> college, aspects |-> aspects]

ScoredFrames ==
    UNION {[1..n -> {ScoredRow(c, d) : c \in Range(Colleges), d \in AspectDicts}] :
              n \in 0..MaxRows}

ScoredColumns ==
    {college_col, text_col, "compound_sentiment"}
        \cup {AspectColumn(a) : a \in AspectSet}

InitSummary ==
    /\ analyzer = TRUE
    /\ df \in ScoredFrames
    /\ columns = ScoredColumns
    /\ pc = "scored"
    /\ i = 1
    /\ compound_results = <<>>
    /\ aspect_results = <<>>
    /\ ret = NoCall
    /\ aspect_summary = NoFrame

\* float arithmetic on exact fractions
AddFloat(x, y) == Float(x.num * y.den + y.num * x.den, x.den * y.den)
DivFloat(x, n) == Float(x.num, x.den * n)

RECURSIVE SumFloats(_)
SumFloats(values) ==
    IF values = <<>> THEN Zero ELSE AddFloat(Head(values), SumFloats(Tail(values)))

IsPresent(v) == v.present

\* a cell that is not null and holds something that is not a number, such
\* as the string 'n/a' (den = 0 marks it)
NotANumber == [present |-> TRUE, num |-> 0, den |-> 0]

IsNumber(v) == v.present /\ v.den > 0

\* pd.to_numeric(errors='coerce') on one cell: a number stays, anything
\* else becomes NaN
ToNumeric(v) == IF IsNumber(v) THEN Float(v.num, v.den) ELSE None

\* GroupBy.mean() of one column within one group: NaN is skipped, an
\* all-NaN group gives NaN
MeanNullAsZero(values) ==
    IF SelectSeq(values, IsPresent) = <<>> THEN None
    ELSE DivFloat(SumFloats(SelectSeq(values, IsPresent)), Len(values))

GroupMean(values) ==
    IF SelectSeq(values, IsPresent) = <<>> THEN None
    ELSE DivFloat(SumFloats(SelectSeq(values, IsPresent)),
                  Len(SelectSeq(values, IsPresent)))

\* the values of one aspect column in the rows of one group, in row order
RECURSIVE GroupValues(_, _, _)
GroupValues(frame, entity, a) ==
    IF frame = <<>> THEN <<>>
    ELSE (IF Head(frame).college = entity THEN <<Head(frame).aspects[a]>> ELSE <<>>)
            \o GroupValues(Tail(frame), entity, a)

\* df.groupby(college_col)[aspect_cols].mean(): one row per entity of the
\* frame, in sorted order
IsGroupKey(frame, c) == \E r \in DOMAIN frame : frame[r].college = c

GroupByMean(frame, aspect_cols) ==
    LET keys == {c \in Range(Colleges) : IsGroupKey(frame, c)}
    IN [index |-> SelectSeq(Colleges, LAMBDA c : c \in keys),
        columns |-> aspect_cols,
        cell |-> [e \in keys |->
                    [a \in aspect_cols |-> GroupMean(GroupValues(frame, e, a))]]]

\* DataFrame.dropna(how=...): which rows of the summary are kept
DropNaAny(summary) ==
    LET kept == {e \in DOMAIN summary.cell :
                    \A a \in summary.columns : summary.cell[e][a].present}
    IN [index |-> SelectSeq(summary.index, LAMBDA e : e \in kept),
        columns |-> summary.columns,
        cell |-> [e \in kept |-> summary.cell[e]]]

DropNaAll(summary) ==
    LET kept == {e \in DOMAIN summary.cell :
                    \E a \in summary.columns : summary.cell[e][a].present}
    IN [index |-> SelectSeq(summary.index, LAMBDA e : e \in kept),
        columns |-> summary.columns,
        cell |-> [e \in kept |-> summary.cell[e]]]

(***************************************************************************)
(* calculate_aspect_sentiment_summary(df).  The aspect columns are the     *)
(* columns named <aspect>_sentiment; the result's columns carry the bare   *)
(* aspect names.                                                           *)
(***************************************************************************)
CalculateAspectSentimentSummary ==
    /\ pc = "scored"
    /\ LET aspect_cols == {a \in AspectSet : AspectColumn(a) \in columns}
           numeric == [r \in DOMAIN df |->
                         [df[r] EXCEPT !.aspects =
                             [a \in AspectSet |->
                                 IF a \in aspect_cols THEN ToNumeric(@[a]) ELSE @[a]]]]
       IN IF college_col \notin columns \/ df = <<>>
          THEN aspect_summary' = NoFrame /\ df' = df
          ELSE IF aspect_cols = {}
          THEN aspect_summary' = NoFrame /\ df' = df
          ELSE /\ df' = numeric
               /\ aspect_summary' = DropNaAll(GroupByMean(numeric, aspect_cols))
    /\ pc' = "summarized"
    /\ UNCHANGED <<analyzer, columns, i, compound_results, aspect_results, ret>>

NextSummary == CalculateAspectSentimentSummary

SpecSummary == InitSummary /\ [][NextSummary]_vars

\* the rows of the frame that belong to an entity and have the aspect present
PresentRows(e, a) ==
    {r \in DOMAIN df : df[r].college = e /\ df[r].aspects[a].present}

RECURSIVE SumFloatsOver(_, _)
SumFloatsOver(S, a) ==
    IF S = {} THEN Zero
    ELSE LET r == CHOOSE x \in S : TRUE
         IN AddFloat(df[r].aspects[a], SumFloatsOver(S \ {r}, a))

(***************************************************************************)
(* C9: a cell of the aspect-by-entity summary is the mean over only those  *)
(* documents of the entity whose score for the aspect is present; absent   *)
(* scores are in neither the numerator nor the denominator.                *)
(***************************************************************************)
C9_MeanExcludesAbsent ==
    pc = "summarized" =>
        \A e \in DOMAIN aspect_summary.cell : \A a \in aspect_summary.columns :
            LET P == PresentRows(e, a)
                total == SumFloatsOver(P, a)
                cell == aspect_summary.cell[e][a]
            IN /\ cell.present <=> P # {}
               /\ cell.present =>
                     cell.num * total.den * Cardinality(P) = total.num * cell.den

\* fees of one entity is null, null, 0.4 and its summary cell is 0.4
C9_Witness ==
    /\ pc = "summarized"
    /\ Len(df) = 3
    /\ \A r \in DOMAIN df : df[r].college = Colleges[1]
    /\ ~df[1].aspects["fees"].present
    /\ ~df[2].aspects["fees"].present
    /\ df[3].aspects["fees"] = Float(4, 1)
    /\ aspect_summary.cell[Colleges[1]]["fees"] = Float(4, 1)

(***************************************************************************)
(* C10: an entity has no row in the aspect-by-entity summary exactly when  *)
(* every aspect is absent in every one of its documents; a kept entity     *)
(* has null in the aspects none of its documents mentions.                 *)
(***************************************************************************)
C10_RowDroppedIffAllAbsent ==
    (pc = "summarized" /\ df # <<>>) =>
        \A e \in Range(Colleges) :
            /\ (e \in Range(aspect_summary.index))
                  <=> \E a \in AspectSet : PresentRows(e, a) # {}
            /\ (e \in Range(aspect_summary.index))
                  => /\ e \in DOMAIN aspect_summary.cell
                     /\ \A a \in AspectSet :
                           PresentRows(e, a) = {}
                              => aspect_summary.cell[e][a] = None

\* one entity keeps its row with fees scored and academics null, while the
\* other entity, all of whose aspects are absent, has no row
C10_Witness ==
    /\ pc = "summarized"
    /\ aspect_summary.index = <<Colleges[1]>>
    /\ aspect_summary.cell[Colleges[1]]["fees"].present
    /\ aspect_summary.cell[Colleges[1]]["academics"] = None
    /\ \E r \in DOMAIN df : df[r].college = Colleges[2]

(***************************************************************************)
(* summarizer.py: the cohort operations on a scored frame whose rows carry *)
(* the entity, the overall polarity, the epoch timestamp and the permalink *)
(* of a document.                                                          *)
(***************************************************************************)
sentiment_col == "compound_sentiment"
time_col == "created_utc"
permalink_col == "permalink"

\* epoch seconds of 2024-01-01T00:00:00Z, 2024-01-31T23:59:59Z,
\* 2024-02-01T00:00:00Z and 2024-04-15T00:00:00Z
Timestamps == <<1704067200, 1706745599, 1706745600, 1713139200>>

\* the permalink of the k-th comment loaded
Permalink(k) == <<"/comments/", k>>

\* the row of the k-th document of a scored frame
CohortRow(k, college, sentiment, created_utc) ==
    [college |-> college,
     text |-> Str(Sentence(<<ACADEMICS, GOOD>>)),
     compound_sentiment |-> sentiment,
     aspects |-> [a \in AspectSet |-> IF a = "academics" THEN sentiment ELSE None],
     created_utc |-> created_utc,
     permalink |-> Permalink(k)]

\* overall polarities of the frames: absent, -0.5, 0.0, 0.4
SentimentValues == {None, Float(0 - 5, 1), Zero, Float(4, 1)}

\* the frame whose k-th document has the entity and polarity choice[k]
RECURSIVE EntityFrame(_, _)
EntityFrame(choice, n) ==
    IF n = 0 THEN <<>>
    ELSE Append(EntityFrame(choice, n - 1),
                CohortRow(n, choice[n][1], choice[n][2],
                          Float(Timestamps[((n - 1) % Len(Timestamps)) + 1], 1)))

\* the choices of entity and polarity for frames of up to MaxRows rows
EntityChoices(n) == [1..n -> Range(Colleges) \X SentimentValues]

CohortColumns ==
    {college_col, text_col, sentiment_col, time_col, permalink_col}
        \cup {AspectColumn(a) : a \in AspectSet}

\* a frame that lacks one of the columns the cohort operations read
LackingColumns ==
    {CohortColumns \ {c} : c \in {college_col, text_col, sentiment_col,
                                  time_col, permalink_col}}
        \cup {CohortColumns \ {AspectColumn(a) : a \in AspectSet}}

\* the frame of two documents of one entity, as loaded without the column
ShortFrame ==
    [k \in 1..2 |-> CohortRow(k, Colleges[1], Float(4, 1), Float(Timestamps[k], 1))]

InitCohort ==
    /\ analyzer = TRUE
    /\ \/ /\ \E n \in 0..MaxRows : \E choice \in EntityChoices(n) :
                  df = EntityFrame(choice, n)
          /\ columns = CohortColumns
       \/ /\ df = ShortFrame
          /\ columns \in LackingColumns
    /\ pc = "scored"
    /\ i = 1
    /\ compound_results = <<>>
    /\ aspect_results = <<>>
    /\ ret = NoCall
    /\ aspect_summary = NoFrame

(***************************************************************************)
(* sort_values on one key.  The default sort kind is quicksort, which may  *)
(* leave rows of equal key in any order: ties says whether this sort       *)
(* leaves them in their order ("keep") or turns them round ("reverse").    *)
(***************************************************************************)
TieOrders == {"keep", "reverse"}

Less(x, y) == x.num * y.den < y.num * x.den

Before(a, b, ascending) ==
    IF ascending THEN Less(a.key, b.key) ELSE Less(b.key, a.key)

RECURSIVE InsertSorted(_, _, _, _)
InsertSorted(sorted, x, ascending, ties) ==
    IF sorted = <<>> THEN <<x>>
    ELSE IF \/ Before(x, Head(sorted), ascending)
            \/ (ties = "reverse" /\ ~Before(Head(sorted), x, ascending))
    THEN <<x>> \o sorted
    ELSE <<Head(sorted)>> \o InsertSorted(Tail(sorted), x, ascending, ties)

RECURSIVE sort_values(_, _, _)
sort_values(items, ascending, ties) ==
    IF items = <<>> THEN <<>>
    ELSE InsertSorted(sort_values(SubSeq(items, 1, Len(items) - 1), ascending, ties),
                      items[Len(items)], ascending, ties)

\* the key of every row of a frame, for sort_values(sentiment_col)
RECURSIVE BySentiment(_)
BySentiment(rows) ==
    IF rows = <<>> THEN <<>>
    ELSE <<[key |-> Head(rows).compound_sentiment, row |-> Head(rows)]>>
            \o BySentiment(Tail(rows))

(***************************************************************************)
(* calculate_overall_sentiment(df): lines 9-23.                            *)
(***************************************************************************)
EmptySeries == [index |-> <<>>, value |-> <<>>]

\* pd.to_numeric on the sentiment column, assigned back to the frame
RECURSIVE NumericSentiment(_)
NumericSentiment(frame) ==
    IF frame = <<>> THEN <<>>
    ELSE <<[Head(frame) EXCEPT !.compound_sentiment = ToNumeric(@)]>>
            \o NumericSentiment(Tail(frame))

\* the sentiment column within one group, in row order
RECURSIVE SentimentsOf(_, _)
SentimentsOf(frame, entity) ==
    IF frame = <<>> THEN <<>>
    ELSE (IF Head(frame).college = entity
          THEN <<Head(frame).compound_sentiment>> ELSE <<>>)
            \o SentimentsOf(Tail(frame), entity)

\* one sort item per entity of a series, in index order
RECURSIVE SeriesItems(_, _)
SeriesItems(index, value) ==
    IF index = <<>> THEN <<>>
    ELSE <<[key |-> value[Head(index)], name |-> Head(index)]>>
            \o SeriesItems(Tail(index), value)

RECURSIVE ItemNames(_)
ItemNames(items) ==
    IF items = <<>> THEN <<>> ELSE <<Head(items).name>> \o ItemNames(Tail(items))

\* groupby(college_col)[sentiment_col].mean().dropna()
GroupedMeans(frame) ==
    LET keys == {c \in Range(Colleges) : IsGroupKey(frame, c)}
        mean == [e \in keys |-> GroupMean(SentimentsOf(frame, e))]
        kept == SelectSeq(Colleges, LAMBDA e : e \in keys /\ mean[e].present)
    IN [index |-> kept, value |-> [e \in Range(kept) |-> mean[e]]]

calculate_overall_sentiment_unsorted(frame, cols, ties) ==
    IF college_col \notin cols \/ sentiment_col \notin cols \/ frame = <<>>
    THEN [value |-> EmptySeries, df |-> frame, raised |-> FALSE]
    ELSE [value |-> GroupedMeans(NumericSentiment(frame)),
          df |-> NumericSentiment(frame), raised |-> FALSE]

calculate_overall_sentiment(frame, cols, ties) ==
    IF college_col \notin cols \/ sentiment_col \notin cols \/ frame = <<>>
    THEN [value |-> EmptySeries, df |-> frame, raised |-> FALSE]
    ELSE LET means == GroupedMeans(NumericSentiment(frame))
             sorted == sort_values(SeriesItems(means.index, means.value), FALSE, ties)
         IN [value |-> [index |-> ItemNames(sorted), value |-> means.value],
             df |-> NumericSentiment(frame), raised |-> FALSE]

CalculateOverallSentiment ==
    /\ pc = "scored"
    /\ \E ties \in TieOrders :
         LET res == calculate_overall_sentiment(df, columns, ties)
         IN /\ ret' = [fn |-> "calculate_overall_sentiment",
                       value |-> res.value, raised |-> res.raised]
            /\ df' = res.df
    /\ pc' = "called"
    /\ UNCHANGED <<analyzer, columns, i, compound_results, aspect_results,
                   aspect_summary>>

(***************************************************************************)
(* calculate_sentiment_trends(df, freq): lines 53-77.  The sentiment       *)
(* column is not coerced here: the mean of a bin over a column that holds  *)
(* a non-number raises, and the handler of line 75 returns the empty       *)
(* frame.  A datetime is the                                               *)
(* civil date of an epoch time; a period is the calendar month (freq 'M')  *)
(* or year (freq 'Y') a datetime lies in, labelled by its last month.      *)
(***************************************************************************)
IsLeapYear(y) == (y % 4 = 0 /\ y % 100 # 0) \/ y % 400 = 0
DaysInYear(y) == IF IsLeapYear(y) THEN 366 ELSE 365
DaysInMonth(y, m) ==
    IF m = 2 THEN (IF IsLeapYear(y) THEN 29 ELSE 28)
    ELSE IF m \in {4, 6, 9, 11} THEN 30 ELSE 31

RECURSIVE YearFrom(_, _)
YearFrom(y, days) ==
    IF days < DaysInYear(y) THEN [year |-> y, days |-> days]
    ELSE YearFrom(y + 1, days - DaysInYear(y))

RECURSIVE MonthFrom(_, _, _)
MonthFrom(y, m, days) ==
    IF days < DaysInMonth(y, m) THEN [month |-> m, day |-> days + 1]
    ELSE MonthFrom(y, m + 1, days - DaysInMonth(y, m))

NaT == [present |-> FALSE, year |-> 0, month |-> 0, day |-> 0, days |-> 0]

\* pd.to_datetime(value, unit='s', errors='coerce')
to_datetime(v) ==
    IF ~v.present THEN NaT
    ELSE LET days == (v.num \div v.den) \div 86400
             yr == YearFrom(1970, days)
             mo == MonthFrom(yr.year, 1, yr.days)
         IN [present |-> TRUE, year |-> yr.year, month |-> mo.month,
             day |-> mo.day, days |-> days]

Frequencies == {"M", "Y"}

\* the resample bin of a datetime
FixedWindow(datetime, freq) ==
    IF freq = "Y" THEN [year |-> datetime.year, month |-> 12]
    ELSE [year |-> 1970 + ((datetime.days \div 30) \div 12),
          month |-> ((datetime.days \div 30) % 12) + 1]

Period(datetime, freq) ==
    IF freq = "Y" THEN [year |-> datetime.year, month |-> 12]
    ELSE [year |-> datetime.year, month |-> datetime.month]

NextPeriod(p, freq) ==
    IF freq = "Y" \/ p.month = 12 THEN [year |-> p.year + 1, month |-> IF freq = "Y" THEN 12 ELSE 1]
    ELSE [year |-> p.year, month |-> p.month + 1]

PeriodLeq(p, q) == p.year < q.year \/ (p.year = q.year /\ p.month <= q.month)

\* the sentiments of the rows of one bin, in row order
RECURSIVE BinValues(_, _, _)
BinValues(rows, p, freq) ==
    IF rows = <<>> THEN <<>>
    ELSE (IF Period(Head(rows).datetime, freq) = p
          THEN <<Head(rows).compound_sentiment>> ELSE <<>>)
            \o BinValues(Tail(rows), p, freq)

\* resample(freq).agg(['mean', 'count']): one row per period from the first
\* to the last, an empty period with mean NaN and count 0
RECURSIVE Resample(_, _, _, _)
Resample(rows, p, last, freq) ==
    <<[period |-> p,
       mean_sentiment |-> GroupMean(BinValues(rows, p, freq)),
       comment_count |-> Len(SelectSeq(BinValues(rows, p, freq), IsPresent))]>>
      \o (IF p = last THEN <<>> ELSE Resample(rows, NextPeriod(p, freq), last, freq))

\* df[[time_col, sentiment_col]] with the datetime column added
RECURSIVE WithDatetime(_)
WithDatetime(frame) ==
    IF frame = <<>> THEN <<>>
    ELSE <<[compound_sentiment |-> Head(frame).compound_sentiment,
            created_utc |-> Head(frame).created_utc,
            datetime |-> to_datetime(Head(frame).created_utc)]>>
            \o WithDatetime(Tail(frame))

HasDateAndSentiment(row) == row.datetime.present /\ row.compound_sentiment.present

HasMean(bin) == bin.mean_sentiment.present

calculate_sentiment_trends_keep_empty(frame, cols, freq) ==
    IF time_col \notin cols \/ sentiment_col \notin cols \/ frame = <<>>
    THEN <<>>
    ELSE LET df_trends == SelectSeq(WithDatetime(frame), HasDateAndSentiment)
             periods == {Period(df_trends[r].datetime, freq) : r \in DOMAIN df_trends}
             first == CHOOSE p \in periods : \A q \in periods : PeriodLeq(p, q)
             last == CHOOSE p \in periods : \A q \in periods : PeriodLeq(q, p)
         IN IF df_trends = <<>> THEN <<>>
            ELSE Resample(df_trends, first, last, freq)

calculate_sentiment_trends(frame, cols, freq) ==
    IF time_col \notin cols \/ sentiment_col \notin cols \/ frame = <<>>
    THEN <<>>
    ELSE LET df_trends == SelectSeq(WithDatetime(frame), HasDateAndSentiment)
             periods == {Period(df_trends[r].datetime, freq) : r \in DOMAIN df_trends}
             first == CHOOSE p \in periods : \A q \in periods : PeriodLeq(p, q)
             last == CHOOSE p \in periods : \A q \in periods : PeriodLeq(q, p)
         IN IF df_trends = <<>> THEN <<>>
            ELSE IF \E r \in DOMAIN df_trends : ~IsNumber(df_trends[r].compound_sentiment)
            THEN <<>>
            ELSE SelectSeq(Resample(df_trends, first, last, freq), HasMean)

CalculateSentimentTrends ==
    /\ pc = "scored"
    /\ \E freq \in Frequencies :
         ret' = [fn |-> "calculate_sentiment_trends", freq |-> freq,
                 value |-> calculate_sentiment_trends(df, columns, freq),
                 raised |-> FALSE]
    /\ pc' = "called"
    /\ UNCHANGED <<analyzer, df, columns, i, compound_results, aspect_results,
                   aspect_summary>>

(***************************************************************************)
(* find_top_reviews(df, n): lines 79-111.                                  *)
(***************************************************************************)
TOP_N_REVIEWS == 5

\* DataFrame.head(n) and DataFrame.tail(n), n > 0
head_exact(rows, n) == IF n <= Len(rows) THEN SubSeq(rows, 1, n) ELSE <<>>
head(rows, n) == SubSeq(rows, 1, IF n < Len(rows) THEN n ELSE Len(rows))
tail_from_top(rows, n) == SubSeq(rows, 1, IF n < Len(rows) THEN n ELSE Len(rows))
tail(rows, n) ==
    SubSeq(rows, (IF n < Len(rows) THEN Len(rows) - n ELSE 0) + 1, Len(rows))

\* [review_cols].to_dict('records')
RECURSIVE to_dict(_)
to_dict(items) ==
    IF items = <<>> THEN <<>>
    ELSE <<[text |-> Head(items).row.text,
            compound_sentiment |-> Head(items).row.compound_sentiment,
            permalink |-> Head(items).row.permalink]>> \o to_dict(Tail(items))

RECURSIVE RowsOf(_)
RowsOf(items) ==
    IF items = <<>> THEN <<>> ELSE <<Head(items).row>> \o RowsOf(Tail(items))

HasSentiment(row) == row.compound_sentiment.present

\* the rows of one group, in row order
RECURSIVE GroupRows(_, _)
GroupRows(frame, name) ==
    IF frame = <<>> THEN <<>>
    ELSE (IF Head(frame).college = name THEN <<Head(frame)>> ELSE <<>>)
            \o GroupRows(Tail(frame), name)

required_cols == {college_col, sentiment_col, text_col, permalink_col}

\* lines 94-110: the body of the loop, for one group
TopOfGroup(group, n, ties, ties_negative) ==
    LET sorted_group == sort_values(BySentiment(group), FALSE, ties)
    IN [positive |-> to_dict(head(sorted_group, n)),
        negative |-> to_dict(sort_values(BySentiment(RowsOf(tail(sorted_group, n))),
                                         TRUE, ties_negative))]

find_top_reviews_unguarded(frame, cols, n, ties, ties_negative) ==
    IF ~(required_cols \subseteq cols)
    THEN [value |-> <<>>, df |-> frame, raised |-> TRUE]
    ELSE LET numeric == NumericSentiment(frame)
             df_valid_sentiment == SelectSeq(numeric, HasSentiment)
             names == {c \in Range(Colleges) : IsGroupKey(df_valid_sentiment, c)}
         IN [value |-> [name \in names |->
                          TopOfGroup(GroupRows(df_valid_sentiment, name), n,
                                     ties, ties_negative)],
             df |-> numeric, raised |-> FALSE]

find_top_reviews_keep_null(frame, cols, n, ties, ties_negative) ==
    IF ~(required_cols \subseteq cols) \/ frame = <<>>
    THEN [value |-> <<>>, df |-> frame, raised |-> FALSE]
    ELSE LET numeric == NumericSentiment(frame)
             names == {c \in Range(Colleges) : IsGroupKey(numeric, c)}
         IN [value |-> [name \in names |->
                          TopOfGroup(GroupRows(numeric, name), n, ties, ties_negative)],
             df |-> numeric, raised |-> FALSE]

find_top_reviews(frame, cols, n, ties, ties_negative) ==
    IF ~(required_cols \subseteq cols) \/ frame = <<>>
    THEN [value |-> <<>>, df |-> frame, raised |-> FALSE]
    ELSE LET numeric == NumericSentiment(frame)
             df_valid_sentiment == SelectSeq(numeric, HasSentiment)
             names == {c \in Range(Colleges) : IsGroupKey(df_valid_sentiment, c)}
         IN [value |-> [name \in names |->
                          TopOfGroup(GroupRows(df_valid_sentiment, name), n,
                                     ties, ties_negative)],
             df |-> numeric, raised |-> FALSE]

\* the values of n the selector is called with
TopNs == (1..MaxTopN) \cup {TOP_N_REVIEWS}

FindTopReviews ==
    /\ pc = "scored"
    /\ \E n \in TopNs, ties \in TieOrders, ties_negative \in TieOrders :
         LET res == find_top_reviews(df, columns, n, ties, ties_negative)
         IN IF res.raised
            THEN /\ pc' = "raised"
                 /\ UNCHANGED <<df, ret>>
            ELSE /\ ret' = [fn |-> "find_top_reviews", n |-> n,
                            value |-> res.value, raised |-> FALSE]
                 /\ df' = res.df
                 /\ pc' = "called"
    /\ UNCHANGED <<analyzer, columns, i, compound_results, aspect_results,
                   aspect_summary>>

NextCohort ==
    \/ CalculateOverallSentiment
    \/ CalculateAspectSentimentSummary
    \/ CalculateSentimentTrends
    \/ FindTopReviews

SpecCohort == InitCohort /\ [][NextCohort]_vars

(***************************************************************************)
(* Views of the cohort state used by the properties.  The cohort           *)
(* operations leave the rows of df and their values as they were handed in *)
(* (to_numeric keeps a float and keeps NaN).                               *)
(***************************************************************************)
\* the documents of an entity that have a valid overall polarity
ValidRows(e) ==
    {r \in DOMAIN df : df[r].college = e /\ df[r].compound_sentiment.present}

RECURSIVE SumSentimentsOver(_)
SumSentimentsOver(S) ==
    IF S = {} THEN Zero
    ELSE LET r == CHOOSE x \in S : TRUE
         IN AddFloat(df[r].compound_sentiment, SumSentimentsOver(S \ {r}))

\* x is the mean of the overall polarities of the documents in S
IsMeanOf(x, S) ==
    /\ x.present
    /\ x.num * SumSentimentsOver(S).den * Cardinality(S)
          = SumSentimentsOver(S).num * x.den

Min(a, b) == IF a < b THEN a ELSE b

\* the record find_top_reviews gives for a document
ReviewRecord(r) ==
    [text |-> df[r].text, compound_sentiment |-> df[r].compound_sentiment,
     permalink |-> df[r].permalink]

\* the place of document r among the documents V ordered by polarity
\* descending, equal polarities in input order
StableRank(r, V) ==
    1 + Cardinality({s \in V :
          \/ Less(df[r].compound_sentiment, df[s].compound_sentiment)
          \/ (df[s].compound_sentiment = df[r].compound_sentiment /\ s < r)})

TopReviewsReturned ==
    /\ ret.fn = "find_top_reviews"
    /\ required_cols \subseteq columns
    /\ df # <<>>

(***************************************************************************)
(* C11: calculate_overall_sentiment returns an entry for exactly the       *)
(* entities with at least one valid overall polarity, each entry the mean  *)
(* of the entity's valid polarities, the entries in descending order of    *)
(* the mean.                                                               *)
(***************************************************************************)
C11_OverallMeanDescending ==
    (/\ ret.fn = "calculate_overall_sentiment"
     /\ {college_col, sentiment_col} \subseteq columns
     /\ df # <<>>) =>
        LET s == ret.value
        IN /\ Len(s.index) = Cardinality(Range(s.index))
           /\ \A e \in Range(Colleges) :
                 (e \in Range(s.index)) <=> ValidRows(e) # {}
           /\ \A e \in Range(s.index) : IsMeanOf(s.value[e], ValidRows(e))
           /\ \A j \in DOMAIN s.index : \A k \in DOMAIN s.index :
                 j < k => ~Less(s.value[s.index[j]], s.value[s.index[k]])

\* the entity that sorts second by name comes first with the higher mean;
\* the other has a document without polarity that its mean leaves out
C11_Witness ==
    /\ ret.fn = "calculate_overall_sentiment"
    /\ ret.value.index = <<Colleges[2], Colleges[1]>>
    /\ Less(ret.value.value[Colleges[1]], ret.value.value[Colleges[2]])
    /\ \E r \in DOMAIN df :
          df[r].college = Colleges[1] /\ ~df[r].compound_sentiment.present

(***************************************************************************)
(* C13: each cohort operation returns an empty result, and raises nothing, *)
(* when the frame is empty or lacks a column the operation requires.       *)
(***************************************************************************)
C13_EmptyOrLackingGivesEmpty ==
    /\ pc # "raised"
    /\ (/\ ret.fn = "calculate_overall_sentiment"
        /\ (df = <<>> \/ ~({college_col, sentiment_col} \subseteq columns)))
          => (ret.value = EmptySeries /\ ~ret.raised)
    /\ (/\ ret.fn = "calculate_sentiment_trends"
        /\ (df = <<>> \/ ~({time_col, sentiment_col} \subseteq columns)))
          => (ret.value = <<>> /\ ~ret.raised)
    /\ (/\ ret.fn = "find_top_reviews"
        /\ (df = <<>> \/ ~(required_cols \subseteq columns)))
          => (ret.value = <<>> /\ ~ret.raised)
    /\ (/\ pc = "summarized"
        /\ (\/ df = <<>>
            \/ college_col \notin columns
            \/ \A a \in AspectSet : AspectColumn(a) \notin columns))
          => (aspect_summary.index = <<>> /\ aspect_summary.columns = {})

\* find_top_reviews on a frame of two documents that has no permalink column
C13_Witness ==
    /\ ret.fn = "find_top_reviews"
    /\ Len(df) = 2
    /\ permalink_col \notin columns
    /\ columns \ {permalink_col} = CohortColumns \ {permalink_col}
    /\ ret.value = <<>>

(***************************************************************************)
(* C14: the 'positive' list of an entity is the first n of the entity's    *)
(* valid documents ordered by polarity descending, documents of equal      *)
(* polarity in their input order.                                          *)
(***************************************************************************)
C14_PositiveIsStableTopN ==
    TopReviewsReturned =>
        \A e \in DOMAIN ret.value :
            /\ Len(ret.value[e].positive) = Min(ret.n, Cardinality(ValidRows(e)))
            /\ \A j \in DOMAIN ret.value[e].positive :
                  \E r \in ValidRows(e) :
                      /\ StableRank(r, ValidRows(e)) = j
                      /\ ret.value[e].positive[j] = ReviewRecord(r)

(***************************************************************************)
(* C15: the 'negative' list of an entity holds n of its valid documents    *)
(* (all of them when there are fewer), lowest polarity first, and no       *)
(* document left out has a strictly lower polarity than one in the list.   *)
(***************************************************************************)
\* the documents of entity e that a list of records names
Listed(e, records) ==
    {r \in ValidRows(e) : \E j \in DOMAIN records : records[j] = ReviewRecord(r)}

C15_NegativeIsLowestAscending ==
    TopReviewsReturned =>
        \A e \in DOMAIN ret.value :
            LET negative == ret.value[e].negative
                L == Listed(e, negative)
            IN /\ Len(negative) = Min(ret.n, Cardinality(ValidRows(e)))
               /\ Cardinality(L) = Len(negative)
               /\ \A j \in DOMAIN negative : \A k \in DOMAIN negative :
                     j < k => ~Less(negative[k].compound_sentiment,
                                    negative[j].compound_sentiment)
               /\ \A r \in ValidRows(e) \ L : \A s \in L :
                     ~Less(df[r].compound_sentiment, df[s].compound_sentiment)

\* three documents of one entity with three polarities and n = 2: the two
\* lowest are listed, the lowest first
C15_Witness ==
    /\ TopReviewsReturned
    /\ ret.n = 2
    /\ \E e \in DOMAIN ret.value :
          /\ Cardinality(ValidRows(e)) = 3
          /\ Len(ret.value[e].negative) = 2
          /\ Less(ret.value[e].negative[1].compound_sentiment,
                  ret.value[e].negative[2].compound_sentiment)
          /\ \E r \in ValidRows(e) \ Listed(e, ret.value[e].negative) :
                Less(ret.value[e].negative[2].compound_sentiment,
                     df[r].compound_sentiment)

(***************************************************************************)
(* C16: for an entity with k valid documents, find_top_reviews(n) returns  *)
(* exactly min(n, k) positive and min(n, k) negative records, without      *)
(* padding and without failing; an entity without a valid document has no  *)
(* records.                                                                *)
(***************************************************************************)
C16_TopKBoundary ==
    /\ pc # "raised"
    /\ TopReviewsReturned =>
          \A e \in Range(Colleges) :
              LET k == Cardinality(ValidRows(e))
              IN IF k = 0 THEN e \notin DOMAIN ret.value
                 ELSE /\ e \in DOMAIN ret.value
                      /\ Len(ret.value[e].positive) = Min(ret.n, k)
                      /\ Len(ret.value[e].negative) = Min(ret.n, k)
                      /\ Listed(e, ret.value[e].positive)
                            \cup Listed(e, ret.value[e].negative) \subseteq ValidRows(e)
                      /\ Cardinality(Listed(e, ret.value[e].positive)) = Min(ret.n, k)
                      /\ Cardinality(Listed(e, ret.value[e].negative)) = Min(ret.n, k)

\* an entity with 2 documents and n = 5 gets 2 positive and 2 negative
C16_Witness ==
    /\ TopReviewsReturned
    /\ ret.n = TOP_N_REVIEWS
    /\ \E e \in DOMAIN ret.value :
          /\ Cardinality(ValidRows(e)) = 2
          /\ Len(ret.value[e].positive) = 2
          /\ Len(ret.value[e].negative) = 2

(***************************************************************************)
(* The trend operation on frames whose rows vary in timestamp (absent, or  *)
(* one of Timestamps) and polarity (absent, 0.0, 0.4).                     *)
(***************************************************************************)
EpochValues == {None} \cup {Float(Timestamps[j], 1) : j \in DOMAIN Timestamps}

\* the frame of one entity whose k-th document has the polarity and
\* timestamp choice[k]
RECURSIVE TimeFrame(_, _)
TimeFrame(choice, n) ==
    IF n = 0 THEN <<>>
    ELSE Append(TimeFrame(choice, n - 1),
                CohortRow(n, Colleges[1], choice[n][1], choice[n][2]))

TimeChoices(n) == [1..n -> ScoreValues \X EpochValues]

InitTrends ==
    /\ analyzer = TRUE
    /\ \E n \in 0..MaxRows : \E choice \in TimeChoices(n) :
          df = TimeFrame(choice, n)
    /\ columns = CohortColumns
    /\ pc = "scored"
    /\ i = 1
    /\ compound_results = <<>>
    /\ aspect_results = <<>>
    /\ ret = NoCall
    /\ aspect_summary = NoFrame

NextTrends == CalculateSentimentTrends

SpecTrends == InitTrends /\ [][NextTrends]_vars

\* the documents with a timestamp and an overall polarity
TrendRows ==
    {r \in DOMAIN df : df[r].created_utc.present /\ df[r].compound_sentiment.present}

\* the calendar month (UTC) of the timestamp of document r
CalendarMonth(r) ==
    LET t == df[r].created_utc.num
    IN CASE t = 1704067200 -> [year |-> 2024, month |-> 1]
         [] t = 1706745599 -> [year |-> 2024, month |-> 1]
         [] t = 1706745600 -> [year |-> 2024, month |-> 2]
         [] t = 1713139200 -> [year |-> 2024, month |-> 4]

InMonth(p) == {r \in TrendRows : CalendarMonth(r) = p}

(***************************************************************************)
(* C12: with monthly granularity the trend has one bucket per calendar     *)
(* month that holds a valid document: the bucket averages and counts       *)
(* exactly the documents of that month, documents of different months are  *)
(* in different buckets, and a month without documents has no bucket.      *)
(***************************************************************************)
C12_TrendsFollowCalendarMonths ==
    (ret.fn = "calculate_sentiment_trends" /\ ret.freq = "M") =>
        LET t == ret.value
        IN /\ \A j \in DOMAIN t :
                 /\ InMonth(t[j].period) # {}
                 /\ t[j].comment_count = Cardinality(InMonth(t[j].period))
                 /\ IsMeanOf(t[j].mean_sentiment, InMonth(t[j].period))
           /\ \A j \in DOMAIN t : \A k \in DOMAIN t :
                 j < k => (PeriodLeq(t[j].period, t[k].period)
                             /\ t[j].period # t[k].period)
           /\ \A r \in TrendRows : \E j \in DOMAIN t : t[j].period = CalendarMonth(r)

\* documents of 1 January (0.0) and 31 January (0.4) share the January
\* bucket, mean 0.2 and count 2; the next bucket is April, where the third
\* document lies: February and March have none
C12_Witness ==
    /\ ret.fn = "calculate_sentiment_trends"
    /\ ret.freq = "M"
    /\ Len(df) = 3
    /\ {df[r].created_utc.num : r \in DOMAIN df}
          = {Timestamps[1], Timestamps[2], Timestamps[4]}
    /\ Len(ret.value) = 2
    /\ ret.value[1] = [period |-> [year |-> 2024, month |-> 1],
                       mean_sentiment |-> Float(2, 1), comment_count |-> 2]
    /\ ret.value[2].period = [year |-> 2024, month |-> 4]

(***************************************************************************)
(* cleaner.py: clean_text(text), lines 27-50.  Each re.sub scans the text  *)
(* from the left; where the pattern matches, the match is replaced and the *)
(* scan goes on behind it, otherwise the character is kept.                *)
(***************************************************************************)
W_http == <<"h","t","t","p">>
W_www == <<"w","w","w">>

LowerLetters == Range(LowerAlpha)

\* what is left of s behind its leading run of \S, of \w, of [^\n]
RECURSIVE DropNonSpace(_)
DropNonSpace(s) ==
    IF s # <<>> /\ ~IsSpace(Head(s)) THEN DropNonSpace(Tail(s)) ELSE s

RECURSIVE DropWordChars(_)
DropWordChars(s) ==
    IF s # <<>> /\ IsWordChar(Head(s)) THEN DropWordChars(Tail(s)) ELSE s

RECURSIVE DropLine(_)
DropLine(s) == IF s # <<>> /\ Head(s) # "\n" THEN DropLine(Tail(s)) ELSE s

RECURSIVE DropLowerLetters(_)
DropLowerLetters(s) ==
    IF s # <<>> /\ Head(s) \in LowerLetters THEN DropLowerLetters(Tail(s)) ELSE s

\* line 37: re.sub(r'http\S+|www\S+|https\S+', '', text)
UrlAt(s) ==
    \/ (OccursAt(s, W_http, 0) /\ Len(s) > 4 /\ ~IsSpace(s[5]))
    \/ (OccursAt(s, W_www, 0) /\ Len(s) > 3 /\ ~IsSpace(s[4]))

RECURSIVE RemoveUrls(_)
RemoveUrls(s) ==
    IF s = <<>> THEN <<>>
    ELSE IF UrlAt(s) THEN RemoveUrls(DropNonSpace(s))
    ELSE <<Head(s)>> \o RemoveUrls(Tail(s))

\* line 39: re.sub(r'/?u/\w+|/?r/\w+', '', text); the length of the part
\* of a match that stands before its \w+, 0 when there is no match
MentionPrefix(s) ==
    IF Len(s) >= 4 /\ s[1] = "/" /\ s[2] \in {"u", "r"} /\ s[3] = "/"
          /\ IsWordChar(s[4])
    THEN 3
    ELSE IF Len(s) >= 3 /\ s[1] \in {"u", "r"} /\ s[2] = "/" /\ IsWordChar(s[3])
    THEN 2
    ELSE 0

RECURSIVE RemoveMentions(_)
RemoveMentions(s) ==
    IF s = <<>> THEN <<>>
    ELSE IF MentionPrefix(s) > 0
    THEN RemoveMentions(DropWordChars(SubSeq(s, MentionPrefix(s) + 1, Len(s))))
    ELSE <<Head(s)>> \o RemoveMentions(Tail(s))

\* line 41: the markdown characters are removed: asterisk, underscore, tilde
\* (and the grave accent, which no text of the model contains)
IsMarkdownChar(c) == c \in {"*", "_", "~"}
IsNotMarkdownChar(c) == ~IsMarkdownChar(c)
RemoveMarkdown(s) == SelectSeq(s, IsNotMarkdownChar)

\* line 42: re.sub(r'\[(.*?)\]\(.*?\)', r'\1', text).  For a '[' at the
\* head of s: the places of a ']' that closes the link text, i.e. is
\* followed by '(' ... ')' with no newline anywhere in the link
FirstIn(S) == CHOOSE q \in S : \A r \in S : q <= r

LinkParens(s, q) ==
    {r \in (q + 2)..Len(s) : s[r] = ")" /\ \A j \in (q + 2)..(r - 1) : s[j] # "\n"}

LinkCloses(s) ==
    {q \in 2..(Len(s) - 1) :
        /\ s[q] = "]"
        /\ s[q + 1] = "("
        /\ \A j \in 2..(q - 1) : s[j] # "\n"
        /\ LinkParens(s, q) # {}}

RECURSIVE ReplaceLinks(_)
ReplaceLinks(s) ==
    IF s = <<>> THEN <<>>
    ELSE IF Head(s) = "[" /\ LinkCloses(s) # {}
    THEN LET q == FirstIn(LinkCloses(s))
             r == FirstIn(LinkParens(s, q))
         IN SubSeq(s, 2, q - 1) \o ReplaceLinks(SubSeq(s, r + 1, Len(s)))
    ELSE <<Head(s)>> \o ReplaceLinks(Tail(s))

\* line 43: re.sub(r'^>.*$', '', text, flags=re.MULTILINE)
RECURSIVE RemoveQuoteLines(_, _)
RemoveQuoteLines(s, at_line_start) ==
    IF s = <<>> THEN <<>>
    ELSE IF at_line_start /\ Head(s) = ">"
    THEN RemoveQuoteLines(DropLine(s), FALSE)
    ELSE <<Head(s)>> \o RemoveQuoteLines(Tail(s), Head(s) = "\n")

\* line 45: re.sub(r'&[a-z]+;', '', text)
EntityAt(s) ==
    /\ Len(s) >= 3
    /\ s[1] = "&"
    /\ s[2] \in LowerLetters
    /\ DropLowerLetters(Tail(s)) # <<>>
    /\ Head(DropLowerLetters(Tail(s))) = ";"

RECURSIVE RemoveEntities(_)
RemoveEntities(s) ==
    IF s = <<>> THEN <<>>
    ELSE IF EntityAt(s) THEN RemoveEntities(Tail(DropLowerLetters(Tail(s))))
    ELSE <<Head(s)>> \o RemoveEntities(Tail(s))

\* line 47: re.sub(r'[^a-z\s.,?!\']', '', text)
IsKept(c) == c \in LowerLetters \/ IsSpace(c) \/ c \in {".", ",", "?", "!", "'"}
RemoveSpecial(s) == SelectSeq(s, IsKept)

\* str.split(): the maximal runs of non-whitespace
RECURSIVE TakeNonSpace(_)
TakeNonSpace(s) ==
    IF s # <<>> /\ ~IsSpace(Head(s)) THEN <<Head(s)>> \o TakeNonSpace(Tail(s))
    ELSE <<>>

RECURSIVE Split(_)
Split(s) ==
    IF LStrip(s) = <<>> THEN <<>>
    ELSE <<TakeNonSpace(LStrip(s))>> \o Split(DropNonSpace(LStrip(s)))

\* line 49: ' '.join(text.split())
CollapseWhitespace(s) == Join(Split(s), <<" ">>)

clean_text_unguarded(text) ==
    IF ~IsStr(text) THEN [value |-> <<>>, raised |-> TRUE]
    ELSE [value |-> CollapseWhitespace(RemoveSpecial(RemoveEntities(
                      RemoveQuoteLines(ReplaceLinks(RemoveMarkdown(RemoveMentions(
                          RemoveUrls(Lower(text.chars))))), TRUE)))),
          raised |-> FALSE]

clean_text(text) ==
    IF ~IsStr(text) THEN [value |-> <<>>, raised |-> FALSE]
    ELSE [value |-> CollapseWhitespace(RemoveSpecial(RemoveEntities(
                      RemoveQuoteLines(ReplaceLinks(RemoveMarkdown(RemoveMentions(
                          RemoveUrls(Lower(text.chars))))), TRUE)))),
          raised |-> FALSE]

(***************************************************************************)
(* Raw texts: up to MaxFragments pieces of reddit markup in a row.         *)
(***************************************************************************)
Fragments ==
    { <<"w","w">>, <<"w","x">>, <<"h","t","t","p">>, <<"*">>, <<" ">>, <<"\n">>, <<"[","x","]">>, <<"(","y",")">>, <<">">>, <<"&","a","m","p",";">>, <<"/","u","/","x">>, <<"A","1",".">> }

RECURSIVE Concat(_)
Concat(parts) == IF parts = <<>> THEN <<>> ELSE Head(parts) \o Concat(Tail(parts))

RawTexts ==
    {Str(Concat(parts)) :
        parts \in UNION {[1..n -> Fragments] : n \in 0..MaxFragments}}

NonStrings == {NoneValue, IntValue}

(***************************************************************************)
(* preprocess_text(text, use_lemmatization, use_stemming), lines 52-84.    *)
(***************************************************************************)
W_the == <<"t","h","e">>
W_are == <<"a","r","e">>
W_college == <<"c","o","l","l","e","g","e">>
W_running == <<"r","u","n","n","i","n","g">>
W_run == <<"r","u","n">>
W_jumps == <<"j","u","m","p","s">>
W_jump == <<"j","u","m","p">>
W_studies == <<"s","t","u","d","i","e","s">>
W_study == <<"s","t","u","d","y">>
W_studi == <<"s","t","u","d","i">>
W_grades == <<"g","r","a","d","e","s">>
W_grade == <<"g","r","a","d","e">>

\* lines 11-17: stopwords.words('english') with the custom stopwords; a
\* representative part
stop_words == {W_the, W_is, W_are, W_college}

\* WordNetLemmatizer.lemmatize(word): the dictionary form of a noun
lemmatize(word) ==
    CASE word = W_jumps -> W_jump
      [] word = W_studies -> W_study
      [] word = W_grades -> W_grade
      [] OTHER -> word

\* PorterStemmer.stem(word): the suffix-stripped root
stem(word) ==
    CASE word = W_running -> W_run
      [] word = W_jumps -> W_jump
      [] word = W_studies -> W_studi
      [] word = W_grades -> W_grade
      [] OTHER -> word

\* string.punctuation, as far as cleaned text can hold it
IsPunctuation(c) == c \in {".", ",", "?", "!", "'"}

\* the characters of a word token
IsTokenChar(c) == c \in LowerLetters \/ c = "'"

RECURSIVE TakeTokenChars(_)
TakeTokenChars(s) ==
    IF s # <<>> /\ IsTokenChar(Head(s)) THEN <<Head(s)>> \o TakeTokenChars(Tail(s))
    ELSE <<>>

RECURSIVE DropTokenChars(_)
DropTokenChars(s) ==
    IF s # <<>> /\ IsTokenChar(Head(s)) THEN DropTokenChars(Tail(s)) ELSE s

\* nltk.word_tokenize on cleaned text: the words, and each punctuation mark
\* as a token of its own
RECURSIVE word_tokenize(_)
word_tokenize(s) ==
    IF s = <<>> THEN <<>>
    ELSE IF IsSpace(Head(s)) THEN word_tokenize(Tail(s))
    ELSE IF IsTokenChar(Head(s))
    THEN <<TakeTokenChars(s)>> \o word_tokenize(DropTokenChars(s))
    ELSE <<<<Head(s)>>>> \o word_tokenize(Tail(s))

\* lines 69-72
IsContentToken(word) ==
    /\ word \notin stop_words
    /\ Len(word) > 1
    /\ ~(Len(word) = 1 /\ IsPunctuation(word[1]))

RECURSIVE LemmatizeAll(_)
LemmatizeAll(tokens) ==
    IF tokens = <<>> THEN <<>>
    ELSE <<lemmatize(Head(tokens))>> \o LemmatizeAll(Tail(tokens))

RECURSIVE StemAll(_)
StemAll(tokens) ==
    IF tokens = <<>> THEN <<>>
    ELSE <<stem(Head(tokens))>> \o StemAll(Tail(tokens))

\* the tokens returned, the content tokens they were made from, and whether
\* an exception left the function.  tokenize_raises and lemmatize_raises:
\* the tokenizer, the lemmatizer raises LookupError in this call
Tokens(value, processed_tokens, raised) ==
    [value |-> value, processed_tokens |-> processed_tokens, raised |-> raised]

preprocess_text(text, use_lemmatization, use_stemming, tokenize_raises, lemmatize_raises) ==
    LET cleaned == clean_text(text)
        processed_tokens == SelectSeq(word_tokenize(cleaned.value), IsContentToken)
    IN IF cleaned.raised THEN Tokens(<<>>, <<>>, TRUE)
       ELSE IF cleaned.value = <<>> THEN Tokens(<<>>, <<>>, FALSE)
       ELSE IF tokenize_raises THEN Tokens(<<>>, <<>>, FALSE)
       ELSE IF use_lemmatization
       THEN (IF lemmatize_raises
             THEN Tokens(processed_tokens, processed_tokens, FALSE)
             ELSE Tokens(LemmatizeAll(processed_tokens), processed_tokens, FALSE))
       ELSE IF use_stemming
       THEN Tokens(StemAll(processed_tokens), processed_tokens, FALSE)
       ELSE Tokens(processed_tokens, processed_tokens, FALSE)

\* the texts handed to preprocess_text: "Running, Jumps, Studies.",
\* "the grades are", the empty text, None and a number
CommentTexts ==
    { Str(<<"R","u","n","n","i","n","g",","," ","J","u","m","p","s",","," ","S","t","u","d","i","e","s",".">>), Str(<<"t","h","e"," ","g","r","a","d","e","s"," ","a","r","e">>), Str(<<>>),
      NoneValue, IntValue }

(***************************************************************************)
(* The normalizer called on its own.                                       *)
(***************************************************************************)
InitCleaner ==
    /\ analyzer = TRUE
    /\ df = <<>>
    /\ columns = {}
    /\ pc = "start"
    /\ i = 1
    /\ compound_results = <<>>
    /\ aspect_results = <<>>
    /\ ret = NoCall
    /\ aspect_summary = NoFrame

\* clean_text(text) on a raw text or on a value that is not a string
CallCleanText ==
    /\ pc = "start"
    /\ \E text \in RawTexts \cup NonStrings :
         LET res == clean_text(text)
         IN IF res.raised
            THEN pc' = "raised" /\ ret' = ret
            ELSE /\ pc' = "called"
                 /\ ret' = [fn |-> "clean_text", arg |-> text,
                            value |-> res.value, raised |-> FALSE]
    /\ UNCHANGED <<analyzer, df, columns, i, compound_results, aspect_results,
                   aspect_summary>>

\* clean_text applied to the text a first clean_text returned
CleanTextAgain ==
    /\ pc = "called"
    /\ ret.fn = "clean_text"
    /\ LET res == clean_text(Str(ret.value))
       IN ret' = [fn |-> "clean_text", arg |-> Str(ret.value),
                  value |-> res.value, raised |-> res.raised]
    /\ pc' = "renormalized"
    /\ UNCHANGED <<analyzer, df, columns, i, compound_results, aspect_results,
                   aspect_summary>>

\* preprocess_text(text, use_lemmatization, use_stemming)
CallPreprocessText ==
    /\ pc = "start"
    /\ \E text \in CommentTexts, use_lemmatization \in BOOLEAN,
          use_stemming \in BOOLEAN, tokenize_raises \in BOOLEAN,
          lemmatize_raises \in BOOLEAN :
         LET res == preprocess_text(text, use_lemmatization, use_stemming,
                                    tokenize_raises, lemmatize_raises)
         IN IF res.raised
            THEN pc' = "raised" /\ ret' = ret
            ELSE /\ pc' = "called"
                 /\ ret' = [fn |-> "preprocess_text", arg |-> text,
                            use_lemmatization |-> use_lemmatization,
                            use_stemming |-> use_stemming,
                            backend_raised |-> tokenize_raises \/ lemmatize_raises,
                            value |-> res.value,
                            processed_tokens |-> res.processed_tokens,
                            raised |-> FALSE]
    /\ UNCHANGED <<analyzer, df, columns, i, compound_results, aspect_results,
                   aspect_summary>>

\* main.py lines 171-176: one comment of the raw data is preprocessed under
\* the configuration USE_LEMMATIZATION, USE_STEMMING (lines 49-50)
PreprocessComment ==
    /\ pc = "start"
    /\ \E original_text \in CommentTexts, USE_LEMMATIZATION \in BOOLEAN,
          USE_STEMMING \in BOOLEAN, tokenize_raises \in BOOLEAN,
          lemmatize_raises \in BOOLEAN :
         LET res == preprocess_text(original_text, USE_LEMMATIZATION, FALSE,
                                    tokenize_raises, lemmatize_raises)
             falsy == original_text = Str(<<>>) \/ original_text = NoneValue
         IN /\ pc' = "called"
            /\ ret' = [fn |-> "run_full_pipeline", arg |-> original_text,
                       USE_LEMMATIZATION |-> USE_LEMMATIZATION,
                       USE_STEMMING |-> USE_STEMMING,
                       skipped |-> falsy \/ res.raised,
                       backend_raised |-> tokenize_raises \/ lemmatize_raises,
                       value |-> IF falsy THEN <<>> ELSE res.value,
                       processed_tokens |->
                           IF falsy THEN <<>> ELSE res.processed_tokens,
                       raised |-> FALSE]
    /\ UNCHANGED <<analyzer, df, columns, i, compound_results, aspect_results,
                   aspect_summary>>

NextCleaner ==
    \/ CallCleanText
    \/ CleanTextAgain
    \/ CallPreprocessText
    \/ PreprocessComment

SpecCleaner == InitCleaner /\ [][NextCleaner]_vars

(***************************************************************************)
(* C17: normalization is idempotent: cleaning a text that clean_text       *)
(* returned gives that text back.                                          *)
(***************************************************************************)
C17_CleanTextIdempotent ==
    pc = "renormalized" => ret.value = ret.arg.chars

(***************************************************************************)
(* C18: for an input that is not a string, clean_text returns the empty    *)
(* string and preprocess_text the empty token list, and neither raises.    *)
(***************************************************************************)
C18_NonStringGivesEmpty ==
    /\ pc # "raised"
    /\ (ret.fn \in {"clean_text", "preprocess_text"} /\ ~IsStr(ret.arg))
          => (ret.value = <<>> /\ ~ret.raised)

\* clean_text(None) has returned the empty string
C18_Witness ==
    /\ ret.fn = "clean_text"
    /\ ret.arg = NoneValue
    /\ ret.value = <<>>
    /\ pc = "called"

(***************************************************************************)
(* C19: lemmatization and stemming exclude each other and follow the       *)
(* configuration: the content tokens are lemmatized by default, and when   *)
(* stemming is configured -- use_stemming of preprocess_text, USE_STEMMING *)
(* of the pipeline -- they are stemmed instead.  (Calls in which the       *)
(* tokenizer or the lemmatizer was unavailable are left aside.)            *)
(***************************************************************************)
C19_StemmingWhenConfigured ==
    /\ (ret.fn = "preprocess_text" /\ ~ret.backend_raised) =>
          ret.value = IF ret.use_stemming THEN StemAll(ret.processed_tokens)
                      ELSE IF ret.use_lemmatization
                      THEN LemmatizeAll(ret.processed_tokens)
                      ELSE ret.processed_tokens
    /\ (ret.fn = "run_full_pipeline" /\ ~ret.skipped /\ ~ret.backend_raised) =>
          ret.value = IF ret.USE_STEMMING THEN StemAll(ret.processed_tokens)
                      ELSE IF ret.USE_LEMMATIZATION
                      THEN LemmatizeAll(ret.processed_tokens)
                      ELSE ret.processed_tokens

(***************************************************************************)
(* C20: batch scoring gives one score record per input document and keeps  *)
(* the order.  While apply_sentiment_analysis_to_df runs, the frame keeps  *)
(* its rows, each with its text, in place; in the frame it returns, the    *)
(* overall score and the aspect scores of row r are those of the text of   *)
(* row r (a sentence on which the oracle failed counting 0.0).             *)
(***************************************************************************)
\* the sentences the aggregator iterates over for row r
RowSentences(r) ==
    IF StripIsEmpty(df[r].text.chars) \/ aspect_results[r].tokenize_raised
    THEN <<>>
    ELSE sent_tokenize(df[r].text.chars)

\* the polarity of sentence k of row r
RowSentenceScore(r, k) ==
    IF k \in aspect_results[r].raising THEN 0
    ELSE polarity_scores(RowSentences(r)[k])

\* the score of aspect a computed from the text of row r
RowAspectScore(r, a) ==
    LET M == {k \in DOMAIN RowSentences(r) :
                 MatchesAspect(a, Lower(RowSentences(r)[k]))}
    IN MeanOver([k \in DOMAIN RowSentences(r) |-> RowSentenceScore(r, k)], M)

\* the overall score computed from the text of row r
RowCompoundScore(r) ==
    IF StripIsEmpty(df[r].text.chars) \/ compound_results[r].oracle_raised
    THEN Zero
    ELSE Float(polarity_scores(df[r].text.chars), 1)

RowsStayInPlace ==
    pc \in {"ready", "compound", "aspects", "concat"} =>
        /\ Len(df') = Len(df)
        /\ \A r \in DOMAIN df : df'[r].text.chars = df[r].text.chars

RowScoresAreOwn ==
    Scored =>
        /\ Len(compound_results) = Len(df)
        /\ Len(aspect_results) = Len(df)
        /\ \A r \in DOMAIN df :
              /\ df[r].compound_sentiment = RowCompoundScore(r)
              /\ \A a \in AspectSet : df[r].aspects[a] = RowAspectScore(r, a)

C20_OneRecordPerDocumentInOrder ==
    []RowScoresAreOwn /\ [][RowsStayInPlace]_vars

\* a returned frame of two documents whose scores differ: the first has a
\* fees score and no academics score, the second the reverse
C20_Witness ==
    /\ Scored
    /\ Len(df) = 2
    /\ df[1].text.chars # df[2].text.chars
    /\ df[1].compound_sentiment # df[2].compound_sentiment
    /\ df[1].aspects["fees"].present /\ ~df[1].aspects["academics"].present
    /\ df[2].aspects["academics"].present /\ ~df[2].aspects["fees"].present

(***************************************************************************)
(* main.py, lines 221-224: the cohort operations are called one after the  *)
(* other on the same frame.  The frames here also hold cells that are not  *)
(* numbers, which the operations coerce (summarizer.py lines 18, 43, 89).  *)
(***************************************************************************)
SessionValues == {None, Float(4, 1), NotANumber}

\* the frame whose k-th document has the polarity cell choice[k], the
\* entities alternating
RECURSIVE SessionFrame(_, _)
SessionFrame(choice, n) ==
    IF n = 0 THEN <<>>
    ELSE Append(SessionFrame(choice, n - 1),
                CohortRow(n, Colleges[((n - 1) % Len(Colleges)) + 1], choice[n],
                          Float(Timestamps[((n - 1) % Len(Timestamps)) + 1], 1)))

InitSession ==
    /\ analyzer = TRUE
    /\ \E n \in 0..MaxRows : \E choice \in [1..n -> SessionValues] :
           df = SessionFrame(choice, n)
    /\ columns = CohortColumns
    /\ pc = "scored"
    /\ i = 1
    /\ compound_results = <<>>
    /\ aspect_results = <<>>
    /\ ret = NoCall
    /\ aspect_summary = NoFrame

\* the caller goes on to its next statement with the same frame
NextOperation ==
    /\ pc \in {"called", "summarized"}
    /\ pc' = "scored"
    /\ UNCHANGED <<analyzer, df, columns, i, compound_results, aspect_results, ret,
                   aspect_summary>>

NextSession ==
    \/ CalculateOverallSentiment
    \/ CalculateAspectSentimentSummary
    \/ CalculateSentimentTrends
    \/ FindTopReviews
    \/ NextOperation

SpecSession == InitSession /\ [][NextSession]_vars

\* what calculate_aspect_sentiment_summary returns on a frame that has the
\* entity column and all aspect columns
AspectSummaryOf(frame) ==
    IF frame = <<>> THEN NoFrame
    ELSE DropNaAll(GroupByMean(
            [r \in DOMAIN frame |->
                [frame[r] EXCEPT !.aspects = [a \in AspectSet |-> ToNumeric(@[a])]]],
            AspectSet))

\* what the three aggregation operations return on a frame
CohortResults(frame) ==
    [overall |-> calculate_overall_sentiment(frame, columns, "keep").value,
     aspects |-> AspectSummaryOf(frame),
     trends |-> [freq \in Frequencies |->
                    calculate_sentiment_trends(frame, columns, freq)]]

C22_SegmentationFailureGivesNoSentences ==
    /\ \A an \in Analyses :
          an.tokenize_raised => (an.scores = AllNone /\ an.sentences = <<>>)
    /\ (ret.fn = "analyze_aspect_sentiment" /\ ret.tokenize_raised) => ~ret.raised
    /\ pc \in {"aspects", "concat", "returned"} =>
          \A r \in DOMAIN aspect_results :
              aspect_results[r].tokenize_raised =>
                  /\ df[r].compound_sentiment = RowCompoundScore(r)
                  /\ pc = "returned" => df[r].aspects = AllNone

\* segmentation failed on "cost is high. Cost is bad.": the returned frame
\* has the overall polarity -0.5 of the text and no fees score, although
\* the text names a fees keyword
C22_Witness ==
    /\ Scored
    /\ \E r \in DOMAIN df :
          /\ aspect_results[r].tokenize_raised
          /\ MatchesAspect("fees", Lower(df[r].text.chars))
          /\ df[r].compound_sentiment = Float(0 - 5, 1)
          /\ df[r].aspects = AllNone

(***************************************************************************)
(* main.py: run_full_pipeline, lines 131-252.  ret holds the run: the      *)
(* stages entered so far, the stage at which the run returned early, the   *)
(* raw comments, the preprocessed items and the results of the analysis.   *)
(* The frame is scored by apply_sentiment_analysis_to_df as modelled       *)
(* above.                                                                  *)
(***************************************************************************)
TREND_FREQUENCY == "M"

StageOrder ==
    <<"check_nltk_data", "run_scraper", "load_raw", "preprocess", "save_processed",
      "load_processed", "score", "summarize", "render">>

\* the comment bodies of the raw file: "Cost is BAD.", "_good_ fees.", the
\* empty body and "NA"
PipelineTexts ==
    { Str(<<"C","o","s","t"," ","i","s"," ","B","A","D",".">>),
      Str(<<"_","g","o","o","d","_"," ","f","e","e","s",".">>),
      Str(<<>>),
      Str(<<"N","A">>) }

\* reddit_scraper.py lines 78-84: the k-th comment of the raw file, under
\* the source key of its entity
RECURSIVE RawData(_, _)
RawData(choice, n) ==
    IF n = 0 THEN <<>>
    ELSE Append(RawData(choice, n - 1),
                [college |-> Colleges[((n - 1) % Len(Colleges)) + 1],
                 text |-> choice[n],
                 created_utc |-> Float(Timestamps[((n - 1) % Len(Timestamps)) + 1], 1),
                 permalink |-> Permalink(n)])

\* lines 163-183: the items appended to processed_data_list; a comment
\* whose text is falsy is passed over
RECURSIVE Preprocessed(_)
Preprocessed(raw_data) ==
    IF raw_data = <<>> THEN <<>>
    ELSE (IF Head(raw_data).text.chars = <<>> THEN <<>>
          ELSE <<[college |-> Head(raw_data).college,
                  text |-> Head(raw_data).text,
                  created_utc |-> Head(raw_data).created_utc,
                  permalink |-> Head(raw_data).permalink,
                  processed_tokens |->
                      preprocess_text(Head(raw_data).text, TRUE, FALSE, FALSE,
                                      FALSE).value]>>)
            \o Preprocessed(Tail(raw_data))

\* pd.read_csv on a text cell, then fillna('') (lines 121, 126): a cell
\* that spells a missing value is read as NaN and becomes the empty string
ReadCsvText(text) ==
    IF text.chars \in {<<>>, <<"N","A">>, <<"n","a","n">>, <<"N","a","N">>,
                       <<"n","u","l","l">>}
    THEN Str(<<>>) ELSE text

\* the frame load_processed_data returns for the saved items
RECURSIVE LoadedFrame(_)
LoadedFrame(items) ==
    IF items = <<>> THEN <<>>
    ELSE <<[college |-> Head(items).college,
            text |-> ReadCsvText(Head(items).text),
            compound_sentiment |-> None,
            aspects |-> AllNone,
            created_utc |-> Head(items).created_utc,
            permalink |-> Head(items).permalink,
            processed_tokens |-> Head(items).processed_tokens]>>
            \o LoadedFrame(Tail(items))

LoadedColumns == {text_col, college_col, time_col, permalink_col, "processed_tokens"}

MainStart ==
    [fn |-> "main", stages |-> <<>>, failed |-> "none", raw_data |-> <<>>,
     processed_data_list |-> <<>>, overall |-> EmptySeries, trends |-> <<>>,
     top_reviews |-> <<>>, plots |-> {}]

InitPipeline ==
    /\ analyzer \in BOOLEAN
    /\ df = <<>>
    /\ columns = {}
    /\ pc = "main"
    /\ i = 1
    /\ compound_results = <<>>
    /\ aspect_results = <<>>
    /\ ret = MainStart
    /\ aspect_summary = NoFrame

\* the run enters a stage; when the stage fails the run returns
Enter(stage, ok) ==
    [ret EXCEPT !.stages = Append(@, stage),
                !.failed = IF ok THEN @ ELSE stage]

\* lines 137-139
CheckNltkData ==
    /\ pc = "main"
    /\ \E ok \in BOOLEAN :
         /\ ret' = Enter("check_nltk_data", ok)
         /\ pc' = IF ok THEN "scrape" ELSE "exit"
    /\ UNCHANGED <<analyzer, df, columns, i, compound_results, aspect_results,
                   aspect_summary>>

\* lines 148-151: run_scraper returns the path of the raw file, or None
RunScraper ==
    /\ pc = "scrape"
    /\ \E ok \in BOOLEAN :
         /\ ret' = Enter("run_scraper", ok)
         /\ pc' = IF ok THEN "load_raw" ELSE "exit"
    /\ UNCHANGED <<analyzer, df, columns, i, compound_results, aspect_results,
                   aspect_summary>>

\* lines 156-159
LoadRawData ==
    /\ pc = "load_raw"
    /\ \/ /\ ret' = Enter("load_raw", FALSE)
          /\ pc' = "exit"
       \/ \E n \in 0..MaxDocs : \E choice \in [1..n -> PipelineTexts] :
             /\ ret' = [Enter("load_raw", TRUE) EXCEPT !.raw_data = RawData(choice, n)]
             /\ pc' = "preprocess"
    /\ UNCHANGED <<analyzer, df, columns, i, compound_results, aspect_results,
                   aspect_summary>>

\* lines 163-186
PreprocessRawData ==
    /\ pc = "preprocess"
    /\ LET items == Preprocessed(ret.raw_data)
       IN /\ ret' = [Enter("preprocess", items # <<>>) EXCEPT
                        !.processed_data_list = items]
          /\ pc' = IF items # <<>> THEN "save" ELSE "exit"
    /\ UNCHANGED <<analyzer, df, columns, i, compound_results, aspect_results,
                   aspect_summary>>

\* lines 188-201
SaveProcessedData ==
    /\ pc = "save"
    /\ \E ok \in BOOLEAN :
         /\ ret' = Enter("save_processed", ok)
         /\ pc' = IF ok THEN "load_processed" ELSE "exit"
    /\ UNCHANGED <<analyzer, df, columns, i, compound_results, aspect_results,
                   aspect_summary>>

\* lines 212-213
LoadProcessedData ==
    /\ pc = "load_processed"
    /\ \E ok \in BOOLEAN :
         /\ ret' = Enter("load_processed", ok)
         /\ IF ok
            THEN /\ df' = LoadedFrame(ret.processed_data_list)
                 /\ columns' = LoadedColumns
                 /\ pc' = "apply"
            ELSE /\ pc' = "exit"
                 /\ UNCHANGED <<df, columns>>
    /\ UNCHANGED <<analyzer, i, compound_results, aspect_results, aspect_summary>>

\* line 216: the call of apply_sentiment_analysis_to_df(df, text_col)
CallApplySentimentAnalysis ==
    /\ pc = "apply"
    /\ ret' = Enter("score", TRUE)
    /\ pc' = "ready"
    /\ UNCHANGED <<analyzer, df, columns, i, compound_results, aspect_results,
                   aspect_summary>>

\* lines 217-225: the check of the returned frame, then the four cohort
\* operations
SummarizeUnchecked ==
    /\ pc = "returned"
    /\ ret.fn = "main"
    /\ \E ties \in TieOrders, ties_top \in TieOrders, ties_negative \in TieOrders :
         /\ ret' = [Enter("summarize", TRUE) EXCEPT
                      !.overall = calculate_overall_sentiment(df, columns, ties).value,
                      !.trends = calculate_sentiment_trends(df, columns, TREND_FREQUENCY),
                      !.top_reviews =
                          find_top_reviews(df, columns, TOP_N_REVIEWS, ties_top,
                                           ties_negative).value]
         /\ aspect_summary' =
               IF \A a \in AspectSet : AspectColumn(a) \in columns
               THEN AspectSummaryOf(df) ELSE NoFrame
         /\ pc' = "render"
    /\ UNCHANGED <<analyzer, df, columns, i, compound_results, aspect_results>>

Summarize ==
    /\ pc = "returned"
    /\ ret.fn = "main"
    /\ IF sentiment_col \notin columns
       THEN /\ ret' = [ret EXCEPT !.failed = "score"]
            /\ pc' = "exit"
            /\ UNCHANGED aspect_summary
       ELSE \E ties \in TieOrders, ties_top \in TieOrders, ties_negative \in TieOrders :
         /\ ret' = [Enter("summarize", TRUE) EXCEPT
                      !.overall = calculate_overall_sentiment(df, columns, ties).value,
                      !.trends = calculate_sentiment_trends(df, columns, TREND_FREQUENCY),
                      !.top_reviews =
                          find_top_reviews(df, columns, TOP_N_REVIEWS, ties_top,
                                           ties_negative).value]
         /\ aspect_summary' =
               IF \A a \in AspectSet : AspectColumn(a) \in columns
               THEN AspectSummaryOf(df) ELSE NoFrame
         /\ pc' = "render"
    /\ UNCHANGED <<analyzer, df, columns, i, compound_results, aspect_results>>

\* lines 229-241: a chart for every result that is not empty
Render ==
    /\ pc = "render"
    /\ ret' = [Enter("render", TRUE) EXCEPT
                 !.plots = (IF ret.overall.index # <<>> THEN {"overall"} ELSE {})
                      \cup (IF aspect_summary.index # <<>> THEN {"aspects"} ELSE {})
                      \cup (IF ret.trends # <<>> THEN {"trends"} ELSE {})
                      \cup (IF ret.top_reviews # <<>> THEN {"word_clouds"} ELSE {})]
    /\ pc' = "finished"
    /\ UNCHANGED <<analyzer, df, columns, i, compound_results, aspect_results,
                   aspect_summary>>

NextPipeline ==
    \/ CheckNltkData
    \/ RunScraper
    \/ LoadRawData
    \/ PreprocessRawData
    \/ SaveProcessedData
    \/ LoadProcessedData
    \/ CallApplySentimentAnalysis
    \/ ApplyBegin
    \/ ScoreCompoundRow
    \/ AnalyzeAspectRow
    \/ ConcatAspects
    \/ Summarize
    \/ Render

SpecPipeline == InitPipeline /\ [][NextPipeline]_vars

\* the text the normalizer returns for the comment behind row r
NormalizedText(r) == clean_text(ret.processed_data_list[r].text).value

(***************************************************************************)
(* C23: the document scorer works on the normalized text: every text       *)
(* handed to the polarity oracle for the overall score of a document is    *)
(* the output of the normalizer for that document, and the sentences       *)
(* tagged and scored are the sentences of that normalized text.            *)
(***************************************************************************)
C23_ScoresNormalizedText ==
    ret.fn = "main" =>
        /\ \A r \in DOMAIN compound_results :
              \A k \in DOMAIN compound_results[r].calls :
                  compound_results[r].calls[k] = NormalizedText(r)
        /\ \A r \in DOMAIN aspect_results :
              aspect_results[r].sentences # <<>> =>
                  aspect_results[r].sentences = sent_tokenize(NormalizedText(r))

\* every completed run of analyze_aspect_sentiment on a text it segmented,
\* with the oracle invocations it made
SentenceRuns ==
    {[analysis |-> Analysis(aspect_results[r]), calls |-> aspect_results[r].calls] :
        r \in DOMAIN aspect_results}
    \cup (IF ret.fn = "analyze_aspect_sentiment"
          THEN {[analysis |-> Analysis(ret), calls |-> ret.calls]} ELSE {})

(***************************************************************************)
(* C24: while the aspects of one document are scored, the polarity of each *)
(* sentence is computed once -- one oracle invocation per sentence, in     *)
(* sentence order, however many aspects the sentence matches -- and that   *)
(* one value is what every matched aspect's accumulator receives.          *)
(***************************************************************************)
C24_OneScorePerSentence ==
    \A run \in SentenceRuns :
        LET an == run.analysis
        IN /\ run.calls = an.sentences
           /\ Len(an.sentence_scores) = Len(an.sentences)
           /\ \A k \in DOMAIN an.sentences :
                 an.sentence_scores[k] =
                     IF k \in an.raising THEN 0 ELSE polarity_scores(an.sentences[k])
           /\ \A a \in AspectSet :
                 /\ Len(an.aspect_sentiments[a]) = Cardinality(Matching(an, a))
                 /\ \A j \in DOMAIN an.aspect_sentiments[a] :
                       an.aspect_sentiments[a][j]
                           = an.sentence_scores[Nth(Matching(an, a), j)]

\* a text of two sentences, the first matching two aspects and the second
\* none: two oracle invocations, and the two accumulators hold the one
\* polarity -0.1 of the first sentence
C24_Witness ==
    /\ ret.fn = "analyze_aspect_sentiment"
    /\ Len(ret.sentences) = 2
    /\ Len(ret.calls) = 2
    /\ Matching(Analysis(ret), "academics") = {1}
    /\ Matching(Analysis(ret), "infrastructure") = {1}
    /\ \A a \in AspectSet : 2 \notin Matching(Analysis(ret), a)
    /\ ret.aspect_sentiments["academics"] = <<0 - 1>>
    /\ ret.aspect_sentiments["infrastructure"] = <<0 - 1>>
    /\ ret.sentence_scores[2] # 0 - 1

(***************************************************************************)
(* C25: every record find_top_reviews returns under an entity carries the  *)
(* text, polarity and permalink of one input document of that entity that  *)
(* has a polarity; a document without polarity is in no list, and an       *)
(* entity without any scored document is not a key of the result.          *)
(***************************************************************************)
C25_RecordsAreValidDocumentsOfEntity ==
    TopReviewsReturned =>
        /\ \A e \in DOMAIN ret.value :
              /\ ValidRows(e) # {}
              /\ \A j \in DOMAIN ret.value[e].positive :
                    \E r \in ValidRows(e) : ret.value[e].positive[j] = ReviewRecord(r)
              /\ \A j \in DOMAIN ret.value[e].negative :
                    \E r \in ValidRows(e) : ret.value[e].negative[j] = ReviewRecord(r)
        /\ \A e \in Range(Colleges) : ValidRows(e) = {} => e \notin DOMAIN ret.value
        /\ \A r \in DOMAIN df :
              ~df[r].compound_sentiment.present =>
                  \A e \in DOMAIN ret.value :
                      LET records == ret.value[e].positive \o ret.value[e].negative
                      IN \A j \in DOMAIN records :
                            records[j].permalink # df[r].permalink

\* one entity has a scored and an unscored document and lists only the
\* scored one; the other entity has only an unscored document and no key
C25_Witness ==
    /\ TopReviewsReturned
    /\ Len(df) = 3
    /\ df[1].college = Colleges[1] /\ df[1].compound_sentiment = Float(4, 1)
    /\ df[2].college = Colleges[1] /\ ~df[2].compound_sentiment.present
    /\ df[3].college = Colleges[2] /\ ~df[3].compound_sentiment.present
    /\ DOMAIN ret.value = {Colleges[1]}
    /\ ret.value[Colleges[1]].positive = <<ReviewRecord(1)>>
    /\ ret.value[Colleges[1]].negative = <<ReviewRecord(1)>>

\* the lowercased text with URLs, mentions, markdown markers, link targets,
\* quote lines and HTML entities stripped (lines 35-45)
Stripped(chars) ==
    RemoveEntities(RemoveQuoteLines(ReplaceLinks(RemoveMarkdown(RemoveMentions(
        RemoveUrls(Lower(chars))))), TRUE))

\* a character the final filter is to keep: alphanumeric, whitespace or one
\* of . , ? ! '
IsAlphanumericOrAllowed(c) ==
    c \in Letters \/ c \in Digits \/ IsSpace(c) \/ c \in {".", ",", "?", "!", "'"}

(***************************************************************************)
(* C26: the string clean_text returns is lowercased and whitespace-        *)
(* collapsed, and the final character filter removes only characters that  *)
(* are neither alphanumeric, nor whitespace, nor one of . , ? ! ' : the    *)
(* letters and digits left after the stripping steps are all retained.     *)
(***************************************************************************)
C26_FilterKeepsAlphanumerics ==
    (ret.fn = "clean_text" /\ IsStr(ret.arg)) =>
        /\ \A k \in DOMAIN ret.value : ret.value[k] \notin Range(UpperAlpha)
        /\ ret.value = CollapseWhitespace(ret.value)
        /\ ret.value = CollapseWhitespace(
                           SelectSeq(Stripped(ret.arg.chars), IsAlphanumericOrAllowed))

(***************************************************************************)
(* C27: with the polarity analyzer unavailable, scoring degrades to        *)
(* neutral results -- the adapter returns 0.0 and every aspect is absent   *)
(* -- and the batch run is not stopped by it: a run that reaches scoring   *)
(* goes on to its summaries.                                               *)
(***************************************************************************)
C27_UnavailableBackendIsNeutral ==
    /\ \A text \in TextCells :
          /\ get_vader_sentiment(FALSE, text, FALSE) = Returns(0, <<>>)
          /\ analyze_aspect_sentiment(FALSE, text, FALSE, {}).scores = AllNone
    /\ (ret.fn = "main" /\ ~analyzer) => ret.failed # "score"

\* the run has entered the stage
Entered(stage) == \E k \in DOMAIN ret.stages : ret.stages[k] = stage

\* the stages of a run are entered in the order of StageOrder, none left
\* out; a run that failed in a stage has returned with that stage the last
\* one entered; the summaries are computed from a scored frame only
StagesFollowOrder ==
    ret.fn = "main" =>
        /\ Len(ret.stages) <= Len(StageOrder)
        /\ \A k \in DOMAIN ret.stages : ret.stages[k] = StageOrder[k]
        /\ ret.failed # "none" =>
              /\ pc = "exit"
              /\ ret.stages # <<>>
              /\ ret.stages[Len(ret.stages)] = ret.failed
        /\ pc = "exit" => ret.failed # "none"
        /\ Entered("summarize") => sentiment_col \in columns
        /\ (ret.plots # {} \/ aspect_summary # NoFrame \/ ret.overall # EmptySeries
              \/ ret.trends # <<>> \/ ret.top_reviews # <<>>) => Entered("summarize")

\* a run that has returned does nothing more
ReturnIsFinal == pc \in {"exit", "finished"} => UNCHANGED vars

(***************************************************************************)
(* C30: the stages of run_full_pipeline run strictly in the order resource *)
(* check, scrape, load raw, preprocess, save processed, load processed,    *)
(* score, summarize, render; when a stage up to scoring fails or yields no *)
(* data the run returns before any later stage, so that summaries and      *)
(* charts come only from a frame that has the compound_sentiment column.   *)
(***************************************************************************)
C30_StagesInOrderWithEarlyReturn ==
    []StagesFollowOrder /\ [][ReturnIsFinal]_vars

\* a run whose scoring produced no compound_sentiment column has returned
\* after the scoring stage, with no summary and no chart
C30_Witness ==
    /\ ret.fn = "main"
    /\ pc = "exit"
    /\ ret.failed = "score"
    /\ ret.stages = SubSeq(StageOrder, 1, 7)
    /\ sentiment_col \notin columns
    /\ ret.plots = {}
    /\ df # <<>>

(***************************************************************************)
(* C28: in the output of calculate_sentiment_trends the periods are        *)
(* strictly increasing in time, every period counts at least one comment,  *)
(* and the counts add up to the number of input documents that have both a *)
(* valid timestamp and a valid polarity.                                   *)
(***************************************************************************)
C28_TrendPeriodsPartitionValidDocuments ==
    ret.fn = "calculate_sentiment_trends" =>
        LET t == ret.value
        IN /\ \A j \in DOMAIN t : \A k \in DOMAIN t :
                 j < k => (PeriodLeq(t[j].period, t[k].period)
                             /\ ~PeriodLeq(t[k].period, t[j].period))
           /\ \A j \in DOMAIN t : t[j].comment_count >= 1
           /\ SumSeq([j \in DOMAIN t |-> t[j].comment_count]) = Cardinality(TrendRows)

\* three documents, of January, of April and one without polarity: two
\* periods in order, one comment each, the unscored document counted nowhere
C28_Witness ==
    /\ ret.fn = "calculate_sentiment_trends"
    /\ ret.freq = "M"
    /\ Len(df) = 3
    /\ Cardinality(TrendRows) = 2
    /\ Len(ret.value) = 2
    /\ ret.value[1].period = [year |-> 2024, month |-> 1]
    /\ ret.value[2].period = [year |-> 2024, month |-> 4]
    /\ ret.value[1].comment_count = 1
    /\ ret.value[2].comment_count = 1

(***************************************************************************)
(* reddit_scraper.py: run_scraper, lines 123-169, run repeatedly over the  *)
(* same raw file.  A dict of the scraper is a function from source keys to *)
(* comment lists.  ret holds the file, the dict loaded from it, the dict   *)
(* in memory, the place in the target list and the keys scraped in this    *)
(* run.                                                                    *)
(***************************************************************************)
SKIP_ALREADY_SCRAPED == TRUE
SAVE_INCREMENTALLY == TRUE

TargetPool ==
    << [college_name |-> "IIT Bombay", subreddit |-> "iitb"],
       [college_name |-> "NIT Trichy", subreddit |-> "nitt"],
       [college_name |-> "BITS Pilani", subreddit |-> "bits"],
       [college_name |-> "IIT Delhi", subreddit |-> "iitd"] >>

\* what load_target_subreddits returns
target_list == SubSeq(TargetPool, 1, MaxTargets)

\* line 146: f"{college_name} (r/{subreddit_name})"
DataKey(sub_info) == <<sub_info.college_name, " (r/", sub_info.subreddit, ")">>

TargetKeys == {DataKey(target_list[k]) : k \in DOMAIN target_list}

\* the comment lists: one stored by an earlier session, one the site gives
\* now, and the empty list of a subreddit that yields nothing
StoredComments == <<"comment of an earlier session">>
Yields == {<<>>, <<"comment scraped now">>}

\* the raw file: missing, unreadable (not JSON), or holding a dict
NoFile == [state |-> "missing", data |-> <<>>]
Unreadable == [state |-> "unreadable", data |-> <<>>]
FileOf(data) == [state |-> "dict", data |-> data]

Files ==
    {NoFile, Unreadable}
        \cup {FileOf([key \in S |-> StoredComments]) : S \in SUBSET TargetKeys}

\* lines 48-55
load_existing_data(file) == IF file.state = "dict" THEN file.data ELSE <<>>

\* lines 57-62: the whole dict is written; a failure is caught and leaves
\* the file as it was
save_data(file, data, write_ok) == IF write_ok THEN FileOf(data) ELSE file

\* line 156: all_comments_data[data_key] = comments
Store(data, key, comments) ==
    [k \in DOMAIN data \cup {key} |-> IF k = key THEN comments ELSE data[k]]

InitScraper ==
    /\ analyzer = TRUE
    /\ df = <<>>
    /\ columns = {}
    /\ pc = "run_scraper"
    /\ i = 1
    /\ compound_results = <<>>
    /\ aspect_results = <<>>
    /\ \E file \in Files :
          ret = [fn |-> "run_scraper", run |-> 1, file |-> file, existing |-> <<>>,
                 all_comments_data |-> <<>>, k |-> 1, scraped |-> {},
                 fruitless |-> {}, fruitless_before |-> {}, returned |-> "nothing"]
    /\ aspect_summary = NoFrame

\* lines 125-136: PRAW and the target list are set up, or the run returns
\* None; the existing data is loaded
BeginScraper ==
    /\ pc = "run_scraper"
    /\ \E ok \in BOOLEAN :
         IF ok
         THEN /\ ret' = [ret EXCEPT
                           !.existing = load_existing_data(ret.file),
                           !.all_comments_data = load_existing_data(ret.file),
                           !.k = 1]
              /\ pc' = "scraping"
         ELSE /\ ret' = [ret EXCEPT !.returned = "None",
                                    !.fruitless = ret.fruitless_before]
              /\ pc' = "scraper_returned"
    /\ UNCHANGED <<analyzer, df, columns, i, compound_results, aspect_results,
                   aspect_summary>>

\* lines 141-162 without the skip of line 148
ScrapeTargetAlways ==
    /\ pc = "scraping"
    /\ ret.k <= Len(target_list)
    /\ LET data_key == DataKey(target_list[ret.k])
       IN \E comments \in Yields, write_ok \in BOOLEAN :
               LET stored == Store(ret.all_comments_data, data_key, comments)
               IN ret' = [ret EXCEPT
                             !.k = @ + 1,
                             !.scraped = @ \cup {data_key},
                             !.all_comments_data = IF comments # <<>> THEN stored ELSE @,
                             !.file = IF comments # <<>> /\ SAVE_INCREMENTALLY
                                      THEN save_data(@, stored, write_ok) ELSE @,
                             !.fruitless = IF comments = <<>> THEN @ \cup {data_key}
                                           ELSE @]
    /\ UNCHANGED <<analyzer, df, columns, pc, i, compound_results, aspect_results,
                   aspect_summary>>

\* lines 141-162: one pass of the loop over the targets
ScrapeTarget ==
    /\ pc = "scraping"
    /\ ret.k <= Len(target_list)
    /\ LET data_key == DataKey(target_list[ret.k])
       IN IF SKIP_ALREADY_SCRAPED /\ data_key \in DOMAIN ret.all_comments_data
          THEN ret' = [ret EXCEPT !.k = @ + 1]
          ELSE \E comments \in Yields, write_ok \in BOOLEAN :
               LET stored == Store(ret.all_comments_data, data_key, comments)
               IN ret' = [ret EXCEPT
                             !.k = @ + 1,
                             !.scraped = @ \cup {data_key},
                             !.all_comments_data = IF comments # <<>> THEN stored ELSE @,
                             !.file = IF comments # <<>> /\ SAVE_INCREMENTALLY
                                      THEN save_data(@, stored, write_ok) ELSE @,
                             !.fruitless = IF comments = <<>> THEN @ \cup {data_key}
                                           ELSE @]
    /\ UNCHANGED <<analyzer, df, columns, pc, i, compound_results, aspect_results,
                   aspect_summary>>

\* lines 164-169: the final save and the return value
FinishScraper ==
    /\ pc = "scraping"
    /\ ret.k > Len(target_list)
    /\ \E write_ok \in BOOLEAN :
         ret' = [ret EXCEPT
                   !.file = save_data(@, ret.all_comments_data, write_ok),
                   !.returned = IF ret.all_comments_data # <<>> THEN "OUTPUT_FILENAME"
                                ELSE "None"]
    /\ pc' = "scraper_returned"
    /\ UNCHANGED <<analyzer, df, columns, i, compound_results, aspect_results,
                   aspect_summary>>

\* the process is stopped inside the loop (line 31: "Useful if run gets
\* interrupted"): no final save, the file is as the last save left it
InterruptScraper ==
    /\ pc = "scraping"
    /\ ret' = [ret EXCEPT
                 !.returned = "interrupted",
                 !.fruitless = (@ \cup ret.fruitless_before)
                                  \ DOMAIN ret.all_comments_data]
    /\ pc' = "scraper_returned"
    /\ UNCHANGED <<analyzer, df, columns, i, compound_results, aspect_results,
                   aspect_summary>>

\* the scraper is run again, on the file the run before left
RunScraperAgain ==
    /\ pc = "scraper_returned"
    /\ ret.run < MaxRuns
    /\ ret' = [ret EXCEPT !.run = @ + 1, !.existing = <<>>,
                          !.all_comments_data = <<>>, !.k = 1, !.scraped = {},
                          !.fruitless = {}, !.fruitless_before = ret.fruitless,
                          !.returned = "nothing"]
    /\ pc' = "run_scraper"
    /\ UNCHANGED <<analyzer, df, columns, i, compound_results, aspect_results,
                   aspect_summary>>

NextScraper ==
    \/ BeginScraper
    \/ ScrapeTarget
    \/ FinishScraper
    \/ InterruptScraper
    \/ RunScraperAgain

SpecScraper == InitScraper /\ [][NextScraper]_vars

\* every entry of the dict old is in the dict new, with the same comments
GrowsFrom(old, new) ==
    \A key \in DOMAIN old : key \in DOMAIN new /\ new[key] = old[key]

\* a key of the data loaded at the start of the run is not scraped in the
\* run and keeps its comments; a key that yielded nothing is not stored; a
\* run that went through its targets has scraped every key that yielded
\* nothing in the run before
ResumesFromSavedData ==
    ret.fn = "run_scraper" =>
        /\ \A key \in DOMAIN ret.existing :
              /\ key \notin ret.scraped
              /\ key \in DOMAIN ret.all_comments_data
              /\ ret.all_comments_data[key] = ret.existing[key]
        /\ \A key \in ret.fruitless : key \notin DOMAIN ret.all_comments_data
        /\ (pc = "scraper_returned" /\ ret.k > Len(target_list)) =>
              ret.fruitless_before \subseteq ret.scraped

\* within a run the dict in memory only grows, and a readable file only
\* grows, within a run and from one run to the next
SavedDataOnlyGrows ==
    ret.fn = "run_scraper" =>
        /\ ret'.run = ret.run => GrowsFrom(ret.all_comments_data, ret'.all_comments_data)
        /\ ret.file.state = "dict" =>
              /\ ret'.file.state = "dict"
              /\ GrowsFrom(ret.file.data, ret'.file.data)

====
